---- MODULE Spec2Model ----
(***************************************************************************)
(* Model of the WebSocket hub of supergin (websocket.go):                  *)
(*   - WebSocketHub.Run, the coordination loop (one goroutine per hub),     *)
(*   - handleWebSocketUpgrade, which creates a connection, hands it to the  *)
(*     hub on the unbuffered register channel and starts the two pumps,     *)
(*   - readPump / writePump of every connection,                            *)
(*   - application goroutines calling Broadcast, SendToConnection,         *)
(*     GetConnections and WebSocketConnection.Send,                         *)
(*   - handlers whose OnConnect / OnDisconnect call Broadcast.              *)
(* Every channel operation, every critical section of the loop and every   *)
(* callback is one atomic step; the range loops of the broadcast case and   *)
(* of GetConnections take one step per entry.  The hub is built with a      *)
(* non-nil handler, as every caller in the repository does.  Connection     *)
(* ids are distinct.                                                        *)
(***************************************************************************)
EXTENDS Integers, Sequences, FiniteSets, TLC

\* ------------------------------------------------------------------ bounds
NConns == 2        \* connections that may be upgraded
NApps == 1         \* application goroutines using the hub
MaxMsgs == 2       \* messages the application serializes in one run
SendCap == 1       \* capacity of conn.Send (make(chan []byte, 256), scaled)
MaxExtUnreg == 2   \* direct submissions on hub.unregister (SpecUnreg only)
MaxFrames == 2     \* inbound frames a connection's peer sends (SpecRead only)
MaxClose == 1      \* calls of WebSocketConnection.Close per connection
NMeta == 2         \* goroutines using connection metadata (SpecMeta only)
TimeStep == 6      \* seconds by which the clock advances (SpecTime only)
MaxTime == 120     \* seconds the clock runs (SpecTime only)
MaxTimeData == 66  \* seconds the clock runs when peers send frames

\* program constants, in seconds
PingPeriod == 54   \* time.NewTicker(54 * time.Second) of writePump
PongWait == 60     \* SetReadDeadline(time.Now().Add(60 * time.Second))

Conns == 1..NConns
MetaUsers == 1..NMeta
Apps == 1..NApps
Msgs == 1..MaxMsgs
NoConn == 0
NoMsg == 0

\* payloads a peer may send in one text frame
Frames == {"not json", "{\"type\":7}", "{}", "{\"type\":\"ping\",\"data\":1}"}

\* json.Unmarshal(messageBytes, &msg) into WebSocketMessage: an error for
\* text that is not JSON and for a "type" that is not a string; an object
\* without the fields decodes, to the zero Type and a nil Data
Unmarshal(f) ==
  CASE f = "{}" -> [err |-> FALSE, Type |-> "", Data |-> "nil"]
    [] f = "{\"type\":\"ping\",\"data\":1}"
         -> [err |-> FALSE, Type |-> "ping", Data |-> "1"]
    [] OTHER -> [err |-> TRUE, Type |-> "", Data |-> "nil"]

\* metadata keys and values the callers use; NoVal is a missing map entry
MetaKeys == {"username"}
MetaVals == {"ann", "bob"}
NoVal == "absent"
NoRes == <<"none", FALSE>>

\* errors ReadMessage may return: a close error with code CloseGoingAway or
\* CloseAbnormalClosure, a close error with any other code, and an error
\* that is no close error (a timeout, a reset, a closed transport)
ErrKinds == {"close_expected", "close_other", "net"}

\* websocket.IsUnexpectedCloseError(err, CloseGoingAway,
\* CloseAbnormalClosure): a close error whose code is not in the list
IsUnexpectedCloseError(k) == k = "close_other"

\* WebSocketConnection.ID: a distinct id per connection
ID(c) == c
Ids == {ID(c) : c \in Conns}

VARIABLES
  connections,   \* h.connections: id -> connection or NoConn
  sendq,         \* buffer of conn.Send
  sendClosed,    \* conn.Send has been closed
  hubpc,         \* position of Run: select / reg / reg_cb / unreg /
                 \* unreg_cb / bcast / cb_bcast (inside a callback's Broadcast)
  hubconn,       \* conn received by the register / unregister case
  hubmsg,        \* message received by the broadcast case
  todo,          \* ids the range loop of the broadcast case has not visited
  upg,           \* position of handleWebSocketUpgrade for each connection
  rp,            \* position of readPump ("blocked": inside an OnMessage
                 \* that never returns)
  wp,            \* position of writePump
  wpn,           \* len(conn.Send) right after writePump received a message
  wire,          \* frames written by writePump, each the messages it holds
  apc,           \* position of each application goroutine
  aop,           \* the operation it called last
  aconn,         \* the connection (or id) that operation targets
  aser,          \* whether that operation's payload can be serialized
  amsg,          \* the serialized message it carries
  ares,          \* what the operation returned
  nextMsg,       \* next fresh message
  panicked,      \* a goroutine panicked: the process is gone
  extUnreg,      \* direct senders blocked on hub.unregister, per connection
  extUsed,       \* direct submissions made so far
  gcpc,          \* position of a goroutine calling GetConnections
  gcTodo,        \* ids its range loop has not visited
  gcCopy,        \* the map it builds (its local `connections`)
  \* ---- history (observations, never read by the program)
  enq,           \* messages successfully enqueued on conn.Send, in order
  onConnect,     \* number of handler.OnConnect(conn) calls
  onDisconnect,  \* number of handler.OnDisconnect(conn) calls
  onError,       \* number of handler.OnError(conn, err) calls
  regProcessed,  \* connections whose register request was processed
  unregProcessed,\* connections whose unregister request was processed
  bsnap,         \* broadcast message -> connections registered when it was taken
  bfull,         \* broadcast message -> connections whose queue was full for it
  bdone,         \* broadcast messages whose fan-out finished
  overflowLen,   \* Len(enq[c]) when an enqueue first found conn.Send full, else -1
  gcSeen,        \* values the registry took while GetConnections held the lock
  recvd,         \* frames ReadMessage returned to readPump, in order
  onMessage,     \* handler.OnMessage(conn, type, data) calls, in order
  closeCalls,    \* calls of WebSocketConnection.Close by application code
  closeFrame,    \* WriteMessage(CloseMessage) of writePump: none / written /
                 \* failed
  sendCloses,    \* number of close(conn.Send) executed (history)
  metadata,      \* conn.Metadata: key -> value or NoVal
  mpc,           \* position of each goroutine using the metadata of a
                 \* connection: idle / set_locked / set_written / get_locked /
                 \* get_read
  mconn,         \* the connection its call is on
  mkey,          \* the key of its call
  mval,          \* the value of its SetMetadata
  mres,          \* what its last GetMetadata returned: <<value, exists>>
  lastSet,       \* key -> value of the latest SetMetadata that returned
                 \* (history)
  now,           \* time.Now(), in seconds since the hub was created
  deadline,      \* the read deadline set on conn.Conn
  tickAt,        \* when the ticker of writePump fires next
  pongDue,       \* a ping was written and its pong has not been read
  pings,         \* pings written by writePump (history)
  late,          \* the peer let time pass before answering a ping (history)
  lastRead,      \* when ReadMessage last returned a frame, or when
                 \* readPump started (history)
  startAt        \* when the pumps were started (history)

hubVars == <<hubpc, hubconn, hubmsg, todo>>
connVars == <<upg, rp, wp, wpn, wire>>
appVars == <<apc, aop, aconn, aser, amsg, ares, nextMsg>>
extVars == <<extUnreg, extUsed>>
cbVars == <<onConnect, onDisconnect, onError>>
regHist == <<regProcessed, unregProcessed>>
bcastHist == <<bsnap, bfull, bdone>>
chanVars == <<sendq, sendClosed, enq, overflowLen>>
gcVars == <<gcpc, gcTodo, gcCopy, gcSeen>>
inVars == <<recvd, onMessage>>
newVars == <<gcVars, inVars>>
tportVars == <<closeCalls, closeFrame, sendCloses>>
metaVars == <<metadata, mpc, mconn, mkey, mval, mres, lastSet>>
timeVars == <<now, deadline, tickAt, pongDue, pings, late, lastRead, startAt>>
restVars == <<metaVars, timeVars>>
moreVars == <<tportVars, restVars>>

vars == <<connections, hubVars, connVars, appVars, extVars, cbVars, regHist,
          bcastHist, chanVars, panicked, newVars, moreVars>>

\* ---------------------------------------------------------------- helpers
InRegistry(c) == connections[ID(c)] = c
Registry == {c \in Conns : InRegistry(c)}

RECURSIVE Count(_, _)
Count(m, s) == IF s = <<>> THEN 0
               ELSE (IF Head(s) = m THEN 1 ELSE 0) + Count(m, Tail(s))

\* the messages writePump handed to the transport, frame after frame
RECURSIVE Written(_)
Written(frames) == IF frames = <<>> THEN <<>>
                   ELSE Head(frames) \o Written(Tail(frames))

\* connCloses for a writePump whose defer does not close the transport
connCloses_NoWriteDefer(c) ==
  (IF rp[c] = "exit" THEN 1 ELSE 0) + closeCalls[c]

\* calls of conn.Conn.Close(): one by the defer of each pump that returned
\* and one by every WebSocketConnection.Close
connCloses(c) ==
  (IF rp[c] = "exit" THEN 1 ELSE 0) + (IF wp[c] = "exit" THEN 1 ELSE 0)
    + closeCalls[c]

\* LockFree for a hub that takes no lock around its mutations
LockFree_NoLock == TRUE

\* h.mutex.Lock() returns once no goroutine holds the read lock; the loop is
\* the only writer, and a read lock it holds itself is released by then
LockFree == gcpc # "copy"

\* select { case conn.Send <- message: ... default: ... }: the send case is
\* ready when the buffer has room
CanSend(c) == Len(sendq[c]) < SendCap

\* ------------------------------------------------------------------- Init
\* the state after NewWebSocketHub and `go hub.Run()`, no connection yet
Init ==
  /\ gcpc = "idle" /\ gcTodo = {} /\ gcCopy = {} /\ gcSeen = {}
  /\ recvd = [c \in Conns |-> <<>>]
  /\ onMessage = [c \in Conns |-> <<>>]
  /\ closeCalls = [c \in Conns |-> 0]
  /\ closeFrame = [c \in Conns |-> "none"]
  /\ sendCloses = [c \in Conns |-> 0]
  /\ metadata = [c \in Conns |-> [k \in MetaKeys |-> NoVal]]
  /\ lastSet = [c \in Conns |-> [k \in MetaKeys |-> NoVal]]
  /\ mpc = [g \in MetaUsers |-> "idle"]
  /\ mconn = [g \in MetaUsers |-> NoConn]
  /\ mkey = [g \in MetaUsers |-> ""]
  /\ mval = [g \in MetaUsers |-> NoVal]
  /\ mres = [g \in MetaUsers |-> NoRes]
  /\ now = 0
  /\ deadline = [c \in Conns |-> 0]
  /\ tickAt = [c \in Conns |-> 0]
  /\ pongDue = [c \in Conns |-> FALSE]
  /\ pings = [c \in Conns |-> 0]
  /\ late = [c \in Conns |-> FALSE]
  /\ lastRead = [c \in Conns |-> 0]
  /\ startAt = [c \in Conns |-> 0]
  /\ connections = [i \in Ids |-> NoConn]
  /\ sendq = [c \in Conns |-> <<>>]
  /\ sendClosed = [c \in Conns |-> FALSE]
  /\ hubpc = "select" /\ hubconn = NoConn /\ hubmsg = NoMsg /\ todo = {}
  /\ upg = [c \in Conns |-> "new"]
  /\ rp = [c \in Conns |-> "none"]
  /\ wp = [c \in Conns |-> "none"]
  /\ wpn = [c \in Conns |-> 0]
  /\ wire = [c \in Conns |-> <<>>]
  /\ apc = [a \in Apps |-> "idle"]
  /\ aop = [a \in Apps |-> "none"]
  /\ aconn = [a \in Apps |-> NoConn]
  /\ aser = [a \in Apps |-> TRUE]
  /\ amsg = [a \in Apps |-> NoMsg]
  /\ ares = [a \in Apps |-> "none"]
  /\ nextMsg = 1
  /\ panicked = FALSE
  /\ extUnreg = [c \in Conns |-> 0]
  /\ extUsed = 0
  /\ enq = [c \in Conns |-> <<>>]
  /\ onConnect = [c \in Conns |-> 0]
  /\ onDisconnect = [c \in Conns |-> 0]
  /\ onError = [c \in Conns |-> 0]
  /\ regProcessed = {}
  /\ unregProcessed = {}
  /\ bsnap = [m \in Msgs |-> {}]
  /\ bfull = [m \in Msgs |-> {}]
  /\ bdone = {}
  /\ overflowLen = [c \in Conns |-> -1]

\* ------------------------------------------------- the coordination loop
\* case conn := <-h.register, the rendezvous with handleWebSocketUpgrade,
\* which goes on to `go wsConn.writePump(); go wsConn.readPump()`: writePump
\* creates its ticker, readPump sets the first read deadline
Run_RecvRegister(c) ==
  /\ ~panicked /\ hubpc = "select" /\ upg[c] = "registering"
  /\ hubpc' = "reg" /\ hubconn' = c
  /\ upg' = [upg EXCEPT ![c] = "done"]
  /\ wp' = [wp EXCEPT ![c] = "run"]
  /\ rp' = [rp EXCEPT ![c] = "run"]
  /\ tickAt' = [tickAt EXCEPT ![c] = now + PingPeriod]
  /\ deadline' = [deadline EXCEPT ![c] = now + PongWait]
  /\ startAt' = [startAt EXCEPT ![c] = now]
  /\ lastRead' = [lastRead EXCEPT ![c] = now]
  /\ UNCHANGED <<now, pongDue, pings, late, metaVars, tportVars,
                 newVars, connections, hubmsg, todo, wpn, wire, appVars,
                 extVars, cbVars, regHist, bcastHist, chanVars, panicked>>

\* Run_Register with the insertion left out
Run_Register_NoInsert ==
  /\ ~panicked /\ hubpc = "reg" /\ LockFree
  /\ regProcessed' = regProcessed \cup {hubconn}
  /\ hubpc' = "reg_cb"
  /\ UNCHANGED <<moreVars, newVars, connections, hubconn, hubmsg, todo, connVars,
                 appVars, extVars, cbVars, unregProcessed, bcastHist,
                 chanVars, panicked>>

\* h.mutex.Lock(); h.connections[conn.ID] = conn; h.mutex.Unlock()
Run_Register ==
  /\ ~panicked /\ hubpc = "reg" /\ LockFree
  /\ connections' = [connections EXCEPT ![ID(hubconn)] = hubconn]
  /\ regProcessed' = regProcessed \cup {hubconn}
  /\ hubpc' = "reg_cb"
  /\ UNCHANGED <<moreVars, newVars, hubconn, hubmsg, todo, connVars, appVars, extVars,
                 cbVars, unregProcessed, bcastHist, chanVars, panicked>>

\* Run_OnConnect with the callback left out
Run_OnConnect_Skip ==
  /\ ~panicked /\ hubpc = "reg_cb"
  /\ hubpc' = "select" /\ hubconn' = NoConn
  /\ UNCHANGED <<moreVars, newVars, connections, hubmsg, todo, connVars, appVars,
                 extVars, cbVars, regHist, bcastHist, chanVars, panicked>>

\* h.handler.OnConnect(conn)
Run_OnConnect ==
  /\ ~panicked /\ hubpc = "reg_cb"
  /\ onConnect' = [onConnect EXCEPT ![hubconn] = @ + 1]
  /\ hubpc' = "select" /\ hubconn' = NoConn
  /\ UNCHANGED <<moreVars, newVars, connections, hubmsg, todo, connVars, appVars,
                 extVars, onDisconnect, onError, regHist, bcastHist,
                 chanVars, panicked>>

\* case conn := <-h.unregister (rendezvous with the defer of readPump)
Run_RecvUnregister(c) ==
  /\ ~panicked /\ hubpc = "select" /\ rp[c] = "unreg"
  /\ hubpc' = "unreg" /\ hubconn' = c
  /\ rp' = [rp EXCEPT ![c] = "close"]
  /\ UNCHANGED <<moreVars, newVars, connections, hubmsg, todo, upg, wp, wpn, wire,
                 appVars, extVars, cbVars, regHist, bcastHist, chanVars,
                 panicked>>

\* case conn := <-h.unregister, the sender being a direct submitter
Run_RecvUnregisterExt(c) ==
  /\ ~panicked /\ hubpc = "select" /\ extUnreg[c] > 0
  /\ hubpc' = "unreg" /\ hubconn' = c
  /\ extUnreg' = [extUnreg EXCEPT ![c] = @ - 1]
  /\ UNCHANGED <<moreVars, newVars, connections, hubmsg, todo, connVars, appVars,
                 extUsed, cbVars, regHist, bcastHist, chanVars, panicked>>

\* Run_Unregister without close(conn.Send)
Run_Unregister_NoClose ==
  /\ ~panicked /\ hubpc = "unreg" /\ LockFree
  /\ IF connections[ID(hubconn)] # NoConn
       THEN connections' = [connections EXCEPT ![ID(hubconn)] = NoConn]
       ELSE UNCHANGED connections
  /\ unregProcessed' = unregProcessed \cup {hubconn}
  /\ hubpc' = "unreg_cb"
  /\ UNCHANGED <<moreVars, newVars, hubconn, hubmsg, todo, connVars, appVars, extVars,
                 cbVars, regProcessed, bcastHist, chanVars, panicked>>

\* Run_Unregister that closes conn.Send without the `if ok` test
Run_Unregister_CloseAlways ==
  /\ ~panicked /\ hubpc = "unreg" /\ LockFree
  /\ connections' = [connections EXCEPT ![ID(hubconn)] = NoConn]
  /\ sendCloses' = [sendCloses EXCEPT ![hubconn] = @ + 1]
  /\ IF sendClosed[hubconn]
       THEN panicked' = TRUE /\ UNCHANGED sendClosed
       ELSE /\ sendClosed' = [sendClosed EXCEPT ![hubconn] = TRUE]
            /\ UNCHANGED panicked
  /\ unregProcessed' = unregProcessed \cup {hubconn}
  /\ hubpc' = "unreg_cb"
  /\ UNCHANGED <<restVars, closeCalls, closeFrame, newVars, hubconn, hubmsg, todo,
                 connVars, appVars, extVars, cbVars, regProcessed, bcastHist,
                 sendq, enq, overflowLen>>

\* if _, ok := h.connections[conn.ID]; ok { delete(...); close(conn.Send) };
\* closing a channel that is closed already panics
Run_Unregister ==
  /\ ~panicked /\ hubpc = "unreg" /\ LockFree
  /\ IF connections[ID(hubconn)] # NoConn
       THEN /\ connections' = [connections EXCEPT ![ID(hubconn)] = NoConn]
            /\ sendCloses' = [sendCloses EXCEPT ![hubconn] = @ + 1]
            /\ IF sendClosed[hubconn]
                 THEN panicked' = TRUE /\ UNCHANGED sendClosed
                 ELSE /\ sendClosed' = [sendClosed EXCEPT ![hubconn] = TRUE]
                      /\ UNCHANGED panicked
       ELSE UNCHANGED <<connections, sendClosed, panicked, sendCloses>>
  /\ unregProcessed' = unregProcessed \cup {hubconn}
  /\ hubpc' = "unreg_cb"
  /\ UNCHANGED <<restVars, closeCalls, closeFrame, newVars, hubconn, hubmsg, todo,
                 connVars, appVars, extVars, cbVars, regProcessed, bcastHist,
                 sendq, enq, overflowLen>>

\* h.handler.OnDisconnect(conn), outside the `if ok` block
Run_OnDisconnect ==
  /\ ~panicked /\ hubpc = "unreg_cb"
  /\ onDisconnect' = [onDisconnect EXCEPT ![hubconn] = @ + 1]
  /\ hubpc' = "select" /\ hubconn' = NoConn
  /\ UNCHANGED <<moreVars, newVars, connections, hubmsg, todo, connVars, appVars,
                 extVars, onConnect, onError, regHist, bcastHist, chanVars,
                 panicked>>

\* case message := <-h.broadcast; h.mutex.RLock(); range h.connections starts
Run_RecvBroadcast(a) ==
  /\ ~panicked /\ hubpc = "select" /\ apc[a] = "bcast_wait"
  /\ hubpc' = "bcast" /\ hubmsg' = amsg[a]
  /\ todo' = {i \in Ids : connections[i] # NoConn}
  /\ bsnap' = [bsnap EXCEPT ![amsg[a]] = Registry]
  /\ apc' = [apc EXCEPT ![a] = "idle"]
  /\ ares' = [ares EXCEPT ![a] = "nil"]
  /\ amsg' = [amsg EXCEPT ![a] = NoMsg]
  /\ UNCHANGED <<moreVars, newVars, connections, hubconn, connVars, aop, aconn, aser,
                 nextMsg, extVars, cbVars, regHist, bfull, bdone, chanVars,
                 panicked>>

\* Run_BroadcastStep with a plain `conn.Send <- message` (no default case)
Run_BroadcastStep_Blocking(i) ==
  /\ ~panicked /\ hubpc = "bcast" /\ i \in todo
  /\ todo' = todo \ {i}
  /\ LET conn == connections[i] IN
       IF sendClosed[conn]
         THEN /\ panicked' = TRUE
              /\ UNCHANGED <<chanVars>>
         ELSE /\ CanSend(conn)
              /\ sendq' = [sendq EXCEPT ![conn] = Append(@, hubmsg)]
              /\ enq' = [enq EXCEPT ![conn] = Append(@, hubmsg)]
              /\ UNCHANGED <<sendClosed, overflowLen, panicked>>
  /\ UNCHANGED <<moreVars, newVars, connections, hubpc, hubconn, hubmsg, connVars,
                 appVars, extVars, cbVars, regHist, bcastHist>>

\* Run_BroadcastStep whose default branch only drops the message
Run_BroadcastStep_DropMessage(i) ==
  /\ ~panicked /\ hubpc = "bcast" /\ i \in todo
  /\ todo' = todo \ {i}
  /\ LET conn == connections[i] IN
       IF sendClosed[conn]
         THEN /\ panicked' = TRUE
              /\ UNCHANGED <<chanVars>>
         ELSE IF CanSend(conn)
           THEN /\ sendq' = [sendq EXCEPT ![conn] = Append(@, hubmsg)]
                /\ enq' = [enq EXCEPT ![conn] = Append(@, hubmsg)]
                /\ UNCHANGED <<sendClosed, overflowLen, panicked>>
           ELSE UNCHANGED <<chanVars, panicked>>
  /\ UNCHANGED <<moreVars, newVars, connections, hubpc, hubconn, hubmsg, connVars,
                 appVars, extVars, cbVars, regHist, bcastHist>>

\* one iteration of the range loop:
\* select { case conn.Send <- message: default: close(conn.Send); delete(...) }
Run_BroadcastStep(i) ==
  /\ ~panicked /\ hubpc = "bcast" /\ i \in todo
  /\ todo' = todo \ {i}
  /\ LET conn == connections[i] IN
       IF sendClosed[conn]
         THEN /\ panicked' = TRUE
              /\ UNCHANGED <<connections, chanVars, bfull, gcSeen,
                             sendCloses>>
         ELSE IF CanSend(conn)
           THEN /\ sendq' = [sendq EXCEPT ![conn] = Append(@, hubmsg)]
                /\ enq' = [enq EXCEPT ![conn] = Append(@, hubmsg)]
                /\ UNCHANGED <<connections, sendClosed, overflowLen, bfull,
                               panicked, gcSeen, sendCloses>>
           ELSE /\ sendClosed' = [sendClosed EXCEPT ![conn] = TRUE]
                /\ sendCloses' = [sendCloses EXCEPT ![conn] = @ + 1]
                /\ connections' = [connections EXCEPT ![i] = NoConn]
                /\ bfull' = [bfull EXCEPT ![hubmsg] = @ \cup {conn}]
                /\ overflowLen' = IF overflowLen[conn] < 0
                                    THEN [overflowLen EXCEPT
                                            ![conn] = Len(enq[conn])]
                                    ELSE overflowLen
                /\ gcSeen' = IF gcpc = "copy"
                               THEN gcSeen \cup {Registry \ {conn}}
                               ELSE gcSeen
                /\ UNCHANGED <<sendq, enq, panicked>>
  /\ UNCHANGED <<restVars, closeCalls, closeFrame, gcpc, gcTodo, gcCopy, inVars, hubpc, hubconn,
                 hubmsg, connVars, appVars, extVars, cbVars, regHist, bsnap,
                 bdone>>

\* the range loop is over: h.mutex.RUnlock(), back to the select
Run_BroadcastEnd ==
  /\ ~panicked /\ hubpc = "bcast" /\ todo = {}
  /\ bdone' = bdone \cup {hubmsg}
  /\ hubpc' = "select" /\ hubmsg' = NoMsg
  /\ UNCHANGED <<moreVars, newVars, connections, hubconn, todo, connVars, appVars,
                 extVars, cbVars, regHist, bsnap, bfull, chanVars, panicked>>

\* The default branch of the broadcast case statement by statement, as the
\* goroutines that hold the read lock at the same time see it: first
\* close(conn.Send), the entry still in the map ("bcast_del") ...
Run_BroadcastStep_Close(i) ==
  /\ ~panicked /\ hubpc = "bcast" /\ i \in todo
  /\ ~sendClosed[connections[i]] /\ ~CanSend(connections[i])
  /\ LET conn == connections[i] IN
       /\ sendClosed' = [sendClosed EXCEPT ![conn] = TRUE]
       /\ sendCloses' = [sendCloses EXCEPT ![conn] = @ + 1]
       /\ bfull' = [bfull EXCEPT ![hubmsg] = @ \cup {conn}]
       /\ overflowLen' = IF overflowLen[conn] < 0
                           THEN [overflowLen EXCEPT ![conn] = Len(enq[conn])]
                           ELSE overflowLen
       /\ hubconn' = conn
  /\ hubpc' = "bcast_del"
  /\ UNCHANGED <<restVars, closeCalls, closeFrame, newVars, connections,
                 hubmsg, todo, connVars, appVars, extVars, cbVars, regHist,
                 bsnap, bdone, sendq, enq, panicked>>

\* ... then delete(h.connections, conn.ID), and on to the next entry
Run_BroadcastStep_Delete ==
  /\ ~panicked /\ hubpc = "bcast_del"
  /\ connections' = [connections EXCEPT ![ID(hubconn)] = NoConn]
  /\ todo' = todo \ {ID(hubconn)}
  /\ gcSeen' = IF gcpc = "copy" THEN gcSeen \cup {Registry \ {hubconn}}
                                ELSE gcSeen
  /\ hubpc' = "bcast" /\ hubconn' = NoConn
  /\ UNCHANGED <<moreVars, gcpc, gcTodo, gcCopy, inVars, hubmsg, connVars,
                 appVars, extVars, cbVars, regHist, bcastHist, chanVars,
                 panicked>>

\* --------------------------------------------------------------- upgrade
\* upgrader.Upgrade succeeded (a failed upgrade returns and creates nothing):
\* build wsConn with an empty open Send and block on hub.register <- wsConn
HandleWebSocketUpgrade(c) ==
  /\ ~panicked /\ upg[c] = "new"
  /\ upg' = [upg EXCEPT ![c] = "registering"]
  /\ UNCHANGED <<moreVars, newVars, connections, hubVars, rp, wp, wpn, wire, appVars,
                 extVars, cbVars, regHist, bcastHist, chanVars, panicked>>

\* -------------------------------------------------------------- readPump
\* ReadMessage returns an error: OnError when it is an unexpected close
\* error, then break; the defer blocks on conn.Hub.unregister <- conn.
\* Once the transport was closed locally the error is not a close error.
ReadPump_ReadError(c, k) ==
  /\ ~panicked /\ rp[c] = "run"
  /\ k # "net" => connCloses(c) = 0
  /\ onError' = IF IsUnexpectedCloseError(k)
                  THEN [onError EXCEPT ![c] = @ + 1] ELSE onError
  /\ rp' = [rp EXCEPT ![c] = "unreg"]
  /\ UNCHANGED <<moreVars, newVars, connections, hubVars, upg, wp, wpn, wire, appVars,
                 extVars, onConnect, onDisconnect, regHist, bcastHist,
                 chanVars, panicked>>

\* ReadPump_Message that treats a frame it cannot parse as a read error
ReadPump_Message_BreakOnError(c, f) ==
  /\ ~panicked /\ rp[c] = "run" /\ connCloses(c) = 0
  /\ Len(recvd[c]) < MaxFrames
  /\ recvd' = [recvd EXCEPT ![c] = Append(@, f)]
  /\ IF Unmarshal(f).err
       THEN /\ onError' = [onError EXCEPT ![c] = @ + 1]
            /\ rp' = [rp EXCEPT ![c] = "unreg"]
            /\ UNCHANGED onMessage
       ELSE /\ onMessage' = [onMessage EXCEPT ![c] =
                               Append(@, <<Unmarshal(f).Type,
                                           Unmarshal(f).Data>>)]
            /\ UNCHANGED <<onError, rp>>
  /\ UNCHANGED <<moreVars, gcVars, connections, hubVars, upg, wp, wpn, wire, appVars,
                 extVars, onConnect, onDisconnect, regHist, bcastHist,
                 chanVars, panicked>>

\* ReadMessage returns a frame: json.Unmarshal; on an error log and
\* continue, else handler.OnMessage(conn, msg.Type, msg.Data)
ReadPump_Message(c, f) ==
  /\ ~panicked /\ rp[c] = "run" /\ connCloses(c) = 0
  /\ Len(recvd[c]) < MaxFrames
  /\ recvd' = [recvd EXCEPT ![c] = Append(@, f)]
  /\ lastRead' = [lastRead EXCEPT ![c] = now]
  /\ IF Unmarshal(f).err
       THEN UNCHANGED onMessage
       ELSE onMessage' = [onMessage EXCEPT ![c] =
                            Append(@, <<Unmarshal(f).Type,
                                        Unmarshal(f).Data>>)]
  /\ UNCHANGED <<now, deadline, tickAt, pongDue, pings, late, startAt,
                 metaVars, tportVars, gcVars, connections, hubVars, connVars, appVars, extVars,
                 cbVars, regHist, bcastHist, chanVars, panicked>>

\* ReadPump_Message_Blocks for a hub that runs OnMessage on the goroutine
\* of its coordination loop
ReadPump_Message_Blocks_InLoop(c, f) ==
  /\ ~panicked /\ rp[c] = "run" /\ connCloses(c) = 0
  /\ Len(recvd[c]) < MaxFrames /\ ~Unmarshal(f).err
  /\ hubpc = "select"
  /\ recvd' = [recvd EXCEPT ![c] = Append(@, f)]
  /\ lastRead' = [lastRead EXCEPT ![c] = now]
  /\ onMessage' = [onMessage EXCEPT ![c] =
                     Append(@, <<Unmarshal(f).Type, Unmarshal(f).Data>>)]
  /\ rp' = [rp EXCEPT ![c] = "blocked"]
  /\ hubpc' = "on_message"
  /\ UNCHANGED <<now, deadline, tickAt, pongDue, pings, late, startAt,
                 metaVars, tportVars, gcVars, connections, hubconn, hubmsg, todo, upg,
                 wp, wpn, wire, appVars, extVars, cbVars, regHist, bcastHist,
                 chanVars, panicked>>

\* ReadMessage returns a frame that decodes and the handler's OnMessage
\* never returns: it was called on the goroutine of readPump, which stays
\* inside the call
ReadPump_Message_Blocks(c, f) ==
  /\ ~panicked /\ rp[c] = "run" /\ connCloses(c) = 0
  /\ Len(recvd[c]) < MaxFrames /\ ~Unmarshal(f).err
  /\ recvd' = [recvd EXCEPT ![c] = Append(@, f)]
  /\ lastRead' = [lastRead EXCEPT ![c] = now]
  /\ onMessage' = [onMessage EXCEPT ![c] =
                     Append(@, <<Unmarshal(f).Type, Unmarshal(f).Data>>)]
  /\ rp' = [rp EXCEPT ![c] = "blocked"]
  /\ UNCHANGED <<now, deadline, tickAt, pongDue, pings, late, startAt,
                 metaVars, tportVars, gcVars, connections, hubVars, upg, wp, wpn, wire,
                 appVars, extVars, cbVars, regHist, bcastHist, chanVars,
                 panicked>>

\* ReadMessage on a transport that was closed on this side returns an error
\* at once (use of closed network connection)
ReadPump_TransportClosed(c) ==
  connCloses(c) > 0 /\ ReadPump_ReadError(c, "net")

\* ReadPump_Close for a readPump that reports its read error in the defer,
\* after the unregister request was taken
ReadPump_Close_ReportsError(c) ==
  /\ ~panicked /\ rp[c] = "close"
  /\ rp' = [rp EXCEPT ![c] = "exit"]
  /\ onError' = [onError EXCEPT ![c] = @ + 1]
  /\ UNCHANGED <<moreVars, newVars, connections, hubVars, upg, wp, wpn, wire,
                 appVars, extVars, onConnect, onDisconnect, regHist,
                 bcastHist, chanVars, panicked>>

\* the rest of the defer: conn.Conn.Close()
ReadPump_Close(c) ==
  /\ ~panicked /\ rp[c] = "close"
  /\ rp' = [rp EXCEPT ![c] = "exit"]
  /\ UNCHANGED <<moreVars, newVars, connections, hubVars, upg, wp, wpn, wire, appVars,
                 extVars, cbVars, regHist, bcastHist, chanVars, panicked>>

\* ------------------------------------------------------------- writePump
\* a write on the transport fails for sure once the transport is closed
WriteMayFail(c, werr) == connCloses(c) > 0 => werr

\* case message, ok := <-conn.Send with ok: NextWriter, w.Write(message);
\* a NextWriter error returns (defer: Conn.Close())
WritePump_Recv(c, werr) ==
  /\ ~panicked /\ wp[c] = "run" /\ sendq[c] # <<>>
  /\ WriteMayFail(c, werr)
  /\ sendq' = [sendq EXCEPT ![c] = Tail(@)]
  /\ IF werr
       THEN /\ wp' = [wp EXCEPT ![c] = "exit"]
            /\ UNCHANGED <<wire, wpn>>
       ELSE /\ wp' = [wp EXCEPT ![c] = "coalesce"]
            /\ wire' = [wire EXCEPT ![c] = Append(@, <<Head(sendq[c])>>)]
            /\ wpn' = [wpn EXCEPT ![c] = Len(sendq[c]) - 1]
  /\ UNCHANGED <<moreVars, newVars, connections, hubVars, upg, rp, appVars, extVars,
                 cbVars, regHist, bcastHist, sendClosed, enq, overflowLen,
                 panicked>>

\* WritePump_Coalesce that writes the queued messages without receiving
\* them from conn.Send
WritePump_Coalesce_NoReceive(c, n, werr) ==
  /\ ~panicked /\ wp[c] = "coalesce"
  /\ n \in wpn[c]..Len(sendq[c])
  /\ WriteMayFail(c, werr)
  /\ wire' = [wire EXCEPT ![c][Len(wire[c])] = @ \o SubSeq(sendq[c], 1, n)]
  /\ wpn' = [wpn EXCEPT ![c] = 0]
  /\ IF werr
       THEN /\ wp' = [wp EXCEPT ![c] = "exit"]
       ELSE /\ wp' = [wp EXCEPT ![c] = "run"]
  /\ UNCHANGED <<moreVars, newVars, connections, hubVars, upg, rp, appVars, extVars,
                 cbVars, regHist, bcastHist, chanVars, panicked>>

\* n := len(conn.Send), read at some point after the receive (so between
\* the length then and the length now); for i := 0; i < n; i++ {
\* w.Write(<-conn.Send) }; w.Close(), whose error returns (defer: Conn.Close())
WritePump_Coalesce(c, n, werr) ==
  /\ ~panicked /\ wp[c] = "coalesce"
  /\ n \in wpn[c]..Len(sendq[c])
  /\ WriteMayFail(c, werr)
  /\ wire' = [wire EXCEPT ![c][Len(wire[c])] = @ \o SubSeq(sendq[c], 1, n)]
  /\ sendq' = [sendq EXCEPT ![c] = SubSeq(@, n + 1, Len(@))]
  /\ wpn' = [wpn EXCEPT ![c] = 0]
  /\ IF werr
       THEN /\ wp' = [wp EXCEPT ![c] = "exit"]
       ELSE /\ wp' = [wp EXCEPT ![c] = "run"]
  /\ UNCHANGED <<moreVars, newVars, connections, hubVars, upg, rp, appVars, extVars,
                 cbVars, regHist, bcastHist, sendClosed, enq, overflowLen,
                 panicked>>

\* WritePump_Closed for a channel whose close discards what is buffered:
\* the receive reports !ok as soon as the queue is closed
WritePump_Closed_NoDrain(c) ==
  /\ ~panicked /\ wp[c] = "run" /\ sendClosed[c]
  /\ closeFrame' = [closeFrame EXCEPT
                      ![c] = IF connCloses(c) = 0 THEN "written" ELSE "failed"]
  /\ wp' = [wp EXCEPT ![c] = "exit"]
  /\ UNCHANGED <<restVars, closeCalls, sendCloses, newVars, connections,
                 hubVars, upg, rp, wpn, wire, appVars, extVars, cbVars,
                 regHist, bcastHist, chanVars, panicked>>

\* WritePump_Closed with `continue` in the place of `return`
WritePump_Closed_NoReturn(c) ==
  /\ ~panicked /\ wp[c] = "run" /\ sendq[c] = <<>> /\ sendClosed[c]
  /\ closeFrame' = [closeFrame EXCEPT
                      ![c] = IF connCloses(c) = 0 THEN "written" ELSE "failed"]
  /\ UNCHANGED <<restVars, closeCalls, sendCloses, newVars, connections,
                 hubVars, connVars, appVars, extVars, cbVars, regHist,
                 bcastHist, chanVars, panicked>>

\* WritePump_Closed that returns without writing the close frame
WritePump_Closed_NoCloseFrame(c) ==
  /\ ~panicked /\ wp[c] = "run" /\ sendq[c] = <<>> /\ sendClosed[c]
  /\ wp' = [wp EXCEPT ![c] = "exit"]
  /\ UNCHANGED <<moreVars, newVars, connections, hubVars, upg, rp, wpn, wire,
                 appVars, extVars, cbVars, regHist, bcastHist, chanVars,
                 panicked>>

\* case message, ok := <-conn.Send with !ok (closed and drained):
\* WriteMessage(CloseMessage), return (defer: Conn.Close())
WritePump_Closed(c) ==
  /\ ~panicked /\ wp[c] = "run" /\ sendq[c] = <<>> /\ sendClosed[c]
  /\ closeFrame' = [closeFrame EXCEPT
                      ![c] = IF connCloses(c) = 0 THEN "written" ELSE "failed"]
  /\ wp' = [wp EXCEPT ![c] = "exit"]
  /\ UNCHANGED <<restVars, closeCalls, sendCloses, newVars, connections, hubVars, upg, rp, wpn, wire, appVars,
                 extVars, cbVars, regHist, bcastHist, chanVars, panicked>>

\* case <-ticker.C: WriteMessage(PingMessage), whose error returns
WritePump_Ping(c, werr) ==
  /\ ~panicked /\ wp[c] = "run"
  /\ WriteMayFail(c, werr)
  /\ IF werr
       THEN /\ wp' = [wp EXCEPT ![c] = "exit"]
       ELSE UNCHANGED wp
  /\ UNCHANGED <<moreVars, newVars, connections, hubVars, upg, rp, wpn, wire, appVars,
                 extVars, cbVars, regHist, bcastHist, chanVars, panicked>>

\* ----------------------------------------------------------------- time
\* everything but the clocks and timers
untimedVars ==
  <<metaVars, tportVars, newVars, connections, hubVars, connVars, appVars,
    extVars, cbVars, regHist, bcastHist, chanVars, panicked>>

\* TimeStep seconds pass.  A goroutine that is ready to run does so before:
\* a writePump whose ticker has fired takes the tick, a readPump whose
\* deadline has passed gets its timeout.  The peer may let the time pass
\* without answering a ping.
Tick ==
  /\ ~panicked /\ now + TimeStep <= MaxTime
  /\ \A c \in Conns : wp[c] = "run" => tickAt[c] > now
  /\ \A c \in Conns : rp[c] = "run" => deadline[c] > now
  /\ now' = now + TimeStep
  /\ late' = [c \in Conns |-> late[c] \/ pongDue[c]]
  /\ UNCHANGED <<deadline, tickAt, pongDue, pings, lastRead, startAt,
                 untimedVars>>

\* case <-ticker.C at the time the ticker fires: WriteMessage(PingMessage),
\* whose error returns; the peer owes a pong for a ping that was written
WritePump_Tick(c, werr) ==
  /\ ~panicked /\ wp[c] = "run" /\ now >= tickAt[c]
  /\ WriteMayFail(c, werr)
  /\ tickAt' = [tickAt EXCEPT ![c] = @ + PingPeriod]
  /\ IF werr
       THEN /\ wp' = [wp EXCEPT ![c] = "exit"]
            /\ UNCHANGED <<pings, pongDue>>
       ELSE /\ pings' = [pings EXCEPT ![c] = @ + 1]
            /\ pongDue' = [pongDue EXCEPT ![c] = TRUE]
            /\ UNCHANGED wp
  /\ UNCHANGED <<now, deadline, late, lastRead, startAt, metaVars, tportVars,
                 newVars, connections, hubVars, upg, rp, wpn, wire, appVars,
                 extVars, cbVars, regHist, bcastHist, chanVars, panicked>>

\* ReadPump_Pong whose pong handler leaves the read deadline alone
ReadPump_Pong_NoRefresh(c) ==
  /\ ~panicked /\ rp[c] = "run" /\ connCloses(c) = 0 /\ pongDue[c]
  /\ pongDue' = [pongDue EXCEPT ![c] = FALSE]
  /\ UNCHANGED <<now, deadline, tickAt, pings, late, lastRead, startAt,
                 untimedVars>>

\* the peer's pong arrives while readPump is inside ReadMessage: the pong
\* handler runs SetReadDeadline(time.Now().Add(60 * time.Second))
ReadPump_Pong(c) ==
  /\ ~panicked /\ rp[c] = "run" /\ connCloses(c) = 0 /\ pongDue[c]
  /\ pongDue' = [pongDue EXCEPT ![c] = FALSE]
  /\ deadline' = [deadline EXCEPT ![c] = now + PongWait]
  /\ UNCHANGED <<now, tickAt, pings, late, lastRead, startAt, untimedVars>>

\* ReadMessage returns a timeout error once the read deadline has passed
ReadPump_Timeout(c) ==
  now >= deadline[c] /\ ReadPump_ReadError(c, "net")

\* ------------------------------------------------ application goroutines
\* MarshalResult with the error test inverted
MarshalResult_Inverted(ser) == IF ser THEN "marshal_error" ELSE "nil"

\* json.Marshal(message): what Broadcast returns when it does not block
MarshalResult(ser) == IF ser THEN "nil" ELSE "marshal_error"

\* Broadcast with `select { case h.broadcast <- msgBytes: default: }`: the
\* message is dropped unless the loop is at its select, nil either way
Broadcast_DropsWhenBusy(a, ser) ==
  /\ ~panicked /\ apc[a] = "idle"
  /\ ser => nextMsg <= MaxMsgs
  /\ aop' = [aop EXCEPT ![a] = "Broadcast"]
  /\ aser' = [aser EXCEPT ![a] = ser]
  /\ aconn' = [aconn EXCEPT ![a] = NoConn]
  /\ IF MarshalResult(ser) = "nil"
       THEN /\ nextMsg' = nextMsg + 1
            /\ IF hubpc = "select"
                 THEN /\ apc' = [apc EXCEPT ![a] = "bcast_wait"]
                      /\ amsg' = [amsg EXCEPT ![a] = nextMsg]
                      /\ ares' = [ares EXCEPT ![a] = "pending"]
                 ELSE /\ ares' = [ares EXCEPT ![a] = "nil"]
                      /\ amsg' = [amsg EXCEPT ![a] = NoMsg]
                      /\ UNCHANGED apc
       ELSE /\ ares' = [ares EXCEPT ![a] = MarshalResult(ser)]
            /\ amsg' = [amsg EXCEPT ![a] = NoMsg]
            /\ UNCHANGED <<apc, nextMsg>>
  /\ UNCHANGED <<moreVars, newVars, connections, hubVars, connVars, extVars,
                 cbVars, regHist, bcastHist, chanVars, panicked>>

\* Broadcast: marshal, return err on failure, else block on
\* h.broadcast <- msgBytes
Broadcast(a, ser) ==
  /\ ~panicked /\ apc[a] = "idle"
  /\ ser => nextMsg <= MaxMsgs
  /\ aop' = [aop EXCEPT ![a] = "Broadcast"]
  /\ aser' = [aser EXCEPT ![a] = ser]
  /\ aconn' = [aconn EXCEPT ![a] = NoConn]
  /\ IF MarshalResult(ser) = "nil"
       THEN /\ apc' = [apc EXCEPT ![a] = "bcast_wait"]
            /\ amsg' = [amsg EXCEPT ![a] = nextMsg]
            /\ nextMsg' = nextMsg + 1
            /\ ares' = [ares EXCEPT ![a] = "pending"]
       ELSE /\ ares' = [ares EXCEPT ![a] = MarshalResult(ser)]
            /\ amsg' = [amsg EXCEPT ![a] = NoMsg]
            /\ UNCHANGED <<apc, nextMsg>>
  /\ UNCHANGED <<moreVars, newVars, connections, hubVars, connVars, extVars, cbVars,
                 regHist, bcastHist, chanVars, panicked>>

\* Lookup that falls back to some registered connection
Lookup_Fallback(i) ==
  IF connections[i] # NoConn THEN connections[i]
  ELSE IF \E j \in Ids : connections[j] # NoConn
         THEN connections[CHOOSE j \in Ids : connections[j] # NoConn]
         ELSE NoConn

\* conn, exists := h.connections[connID] under RLock
Lookup(i) == connections[i]

\* SendToConnection: lookup; not found returns an error; else conn.Send(...)
SendToConnection(a, i, ser) ==
  /\ ~panicked /\ apc[a] = "idle"
  /\ ser => nextMsg <= MaxMsgs
  /\ aop' = [aop EXCEPT ![a] = "SendToConnection"]
  /\ aser' = [aser EXCEPT ![a] = IF Lookup(i) = NoConn THEN TRUE ELSE ser]
  /\ IF Lookup(i) = NoConn
       THEN /\ ares' = [ares EXCEPT ![a] = "not_found"]
            /\ aconn' = [aconn EXCEPT ![a] = NoConn]
            /\ amsg' = [amsg EXCEPT ![a] = NoMsg]
            /\ UNCHANGED <<apc, nextMsg>>
       ELSE /\ apc' = [apc EXCEPT ![a] = "send"]
            /\ aconn' = [aconn EXCEPT ![a] = Lookup(i)]
            /\ ares' = [ares EXCEPT ![a] = "pending"]
            /\ amsg' = [amsg EXCEPT ![a] = IF ser THEN nextMsg ELSE NoMsg]
            /\ nextMsg' = IF ser THEN nextMsg + 1 ELSE nextMsg
  /\ UNCHANGED <<moreVars, newVars, connections, hubVars, connVars, extVars, cbVars,
                 regHist, bcastHist, chanVars, panicked>>

\* The lookup of SendToConnection overlaps delete(h.connections, conn.ID) of
\* the broadcast case: both hold the read lock only, so the map is read and
\* written concurrently.  The lookup then yields what it yields right before
\* or right after the delete (the steps above) or the runtime aborts the
\* process (fatal error: concurrent map read and map write).
SendToConnection_Race(a) ==
  /\ ~panicked /\ apc[a] = "idle" /\ hubpc = "bcast"
  /\ \E j \in todo : ~sendClosed[connections[j]] /\ ~CanSend(connections[j])
  /\ panicked' = TRUE
  /\ aop' = [aop EXCEPT ![a] = "SendToConnection"]
  /\ ares' = [ares EXCEPT ![a] = "fatal"]
  /\ aser' = [aser EXCEPT ![a] = TRUE]
  /\ UNCHANGED <<moreVars, newVars, connections, hubVars, connVars, apc, aconn, amsg,
                 nextMsg, extVars, cbVars, regHist, bcastHist, chanVars>>

\* application code calls conn.Send on a connection a callback gave it
Send(a, c, ser) ==
  /\ ~panicked /\ apc[a] = "idle" /\ onConnect[c] > 0
  /\ ser => nextMsg <= MaxMsgs
  /\ aop' = [aop EXCEPT ![a] = "Send"]
  /\ aser' = [aser EXCEPT ![a] = ser]
  /\ apc' = [apc EXCEPT ![a] = "send"]
  /\ aconn' = [aconn EXCEPT ![a] = c]
  /\ ares' = [ares EXCEPT ![a] = "pending"]
  /\ amsg' = [amsg EXCEPT ![a] = IF ser THEN nextMsg ELSE NoMsg]
  /\ nextMsg' = IF ser THEN nextMsg + 1 ELSE nextMsg
  /\ UNCHANGED <<moreVars, newVars, connections, hubVars, connVars, extVars, cbVars,
                 regHist, bcastHist, chanVars, panicked>>

\* the body of WebSocketConnection.Send: marshal, then
\* select { case conn.Send <- msgBytes: return nil; default: return error }
\* (a send on a closed channel panics); the call's locals die on return
Conn_Send(a) ==
  /\ ~panicked /\ apc[a] = "send"
  /\ apc' = [apc EXCEPT ![a] = "idle"]
  /\ aconn' = [aconn EXCEPT ![a] = NoConn]
  /\ aser' = [aser EXCEPT ![a] = TRUE]
  /\ amsg' = [amsg EXCEPT ![a] = NoMsg]
  /\ LET c == aconn[a] IN
       IF ~aser[a]
         THEN /\ ares' = [ares EXCEPT ![a] = "marshal_error"]
              /\ UNCHANGED <<chanVars, panicked>>
         ELSE IF sendClosed[c]
           THEN /\ panicked' = TRUE
                /\ ares' = [ares EXCEPT ![a] = "panic"]
                /\ UNCHANGED chanVars
           ELSE IF CanSend(c)
             THEN /\ sendq' = [sendq EXCEPT ![c] = Append(@, amsg[a])]
                  /\ enq' = [enq EXCEPT ![c] = Append(@, amsg[a])]
                  /\ ares' = [ares EXCEPT ![a] = "nil"]
                  /\ UNCHANGED <<sendClosed, overflowLen, panicked>>
             ELSE /\ ares' = [ares EXCEPT ![a] = "full"]
                  /\ overflowLen' = IF overflowLen[c] < 0
                                      THEN [overflowLen EXCEPT
                                              ![c] = Len(enq[c])]
                                      ELSE overflowLen
                  /\ UNCHANGED <<sendq, sendClosed, enq, panicked>>
  /\ UNCHANGED <<moreVars, newVars, connections, hubVars, connVars, aop, nextMsg,
                 extVars, cbVars, regHist, bcastHist>>

\* a caller inside the package submits conn on hub.unregister itself
\* (the Unregister operation of the hub's surface)
Unregister(c) ==
  /\ ~panicked /\ upg[c] = "done" /\ extUsed < MaxExtUnreg
  /\ extUnreg' = [extUnreg EXCEPT ![c] = @ + 1]
  /\ extUsed' = extUsed + 1
  /\ UNCHANGED <<moreVars, newVars, connections, hubVars, connVars, appVars, cbVars,
                 regHist, bcastHist, chanVars, panicked>>

\* application code (a handler, a service) calls conn.Close() on a
\* connection a callback gave it: return conn.Conn.Close()
Conn_Close(c) ==
  /\ ~panicked /\ onConnect[c] > 0 /\ closeCalls[c] < MaxClose
  /\ closeCalls' = [closeCalls EXCEPT ![c] = @ + 1]
  /\ UNCHANGED <<restVars, closeFrame, sendCloses, newVars, connections, hubVars,
                 connVars,
                 appVars, extVars, cbVars, regHist, bcastHist, chanVars,
                 panicked>>

\* ---------------------------------------------------- connection metadata
\* goroutines inside conn.mutex of connection c
MetaWriters(c) ==
  {g \in MetaUsers : mconn[g] = c /\ mpc[g] \in {"set_locked", "set_written"}}
MetaReaders(c) ==
  {g \in MetaUsers : mconn[g] = c /\ mpc[g] \in {"get_locked", "get_read"}}

\* everything but the metadata state, which the metadata calls leave alone
nonMetaVars ==
  <<timeVars, tportVars, newVars, connections, hubVars, connVars, appVars, extVars,
    cbVars, regHist, bcastHist, chanVars, panicked>>

\* SetMetadata(key, value) on a connection a callback gave out:
\* conn.mutex.Lock() returns once no goroutine holds the mutex
SetMetadata_Lock(g, c, k, v) ==
  /\ ~panicked /\ mpc[g] = "idle" /\ onConnect[c] > 0
  /\ MetaWriters(c) = {} /\ MetaReaders(c) = {}
  /\ mpc' = [mpc EXCEPT ![g] = "set_locked"]
  /\ mconn' = [mconn EXCEPT ![g] = c]
  /\ mkey' = [mkey EXCEPT ![g] = k]
  /\ mval' = [mval EXCEPT ![g] = v]
  /\ UNCHANGED <<metadata, mres, lastSet, nonMetaVars>>

\* conn.Metadata[key] = value (the map exists since the upgrade)
SetMetadata_Write(g) ==
  /\ ~panicked /\ mpc[g] = "set_locked"
  /\ metadata' = [metadata EXCEPT ![mconn[g]][mkey[g]] = mval[g]]
  /\ mpc' = [mpc EXCEPT ![g] = "set_written"]
  /\ UNCHANGED <<mconn, mkey, mval, mres, lastSet, nonMetaVars>>

\* the deferred conn.mutex.Unlock(): SetMetadata returns
SetMetadata_Unlock(g) ==
  /\ ~panicked /\ mpc[g] = "set_written"
  /\ lastSet' = [lastSet EXCEPT ![mconn[g]][mkey[g]] = mval[g]]
  /\ mpc' = [mpc EXCEPT ![g] = "idle"]
  /\ mconn' = [mconn EXCEPT ![g] = NoConn]
  /\ mkey' = [mkey EXCEPT ![g] = ""]
  /\ mval' = [mval EXCEPT ![g] = NoVal]
  /\ UNCHANGED <<metadata, mres, nonMetaVars>>

\* GetMetadata_RLock that reads without taking conn.mutex
GetMetadata_RLock_NoLock(g, c, k) ==
  /\ ~panicked /\ mpc[g] = "idle" /\ onConnect[c] > 0
  /\ mpc' = [mpc EXCEPT ![g] = "get_locked"]
  /\ mconn' = [mconn EXCEPT ![g] = c]
  /\ mkey' = [mkey EXCEPT ![g] = k]
  /\ mres' = [mres EXCEPT ![g] = NoRes]
  /\ UNCHANGED <<metadata, mval, lastSet, nonMetaVars>>

\* GetMetadata(key): conn.mutex.RLock() returns once no goroutine holds the
\* write lock
GetMetadata_RLock(g, c, k) ==
  /\ ~panicked /\ mpc[g] = "idle" /\ onConnect[c] > 0
  /\ MetaWriters(c) = {}
  /\ mpc' = [mpc EXCEPT ![g] = "get_locked"]
  /\ mconn' = [mconn EXCEPT ![g] = c]
  /\ mkey' = [mkey EXCEPT ![g] = k]
  /\ mres' = [mres EXCEPT ![g] = NoRes]
  /\ UNCHANGED <<metadata, mval, lastSet, nonMetaVars>>

\* value, exists := conn.Metadata[key]: a missing key yields (nil, false)
GetMetadata_Read(g) ==
  /\ ~panicked /\ mpc[g] = "get_locked"
  /\ mres' = [mres EXCEPT ![g] =
                IF metadata[mconn[g]][mkey[g]] = NoVal
                  THEN <<"nil", FALSE>>
                  ELSE <<metadata[mconn[g]][mkey[g]], TRUE>>]
  /\ mpc' = [mpc EXCEPT ![g] = "get_read"]
  /\ UNCHANGED <<metadata, mconn, mkey, mval, lastSet, nonMetaVars>>

\* the deferred conn.mutex.RUnlock(): GetMetadata returns (value, exists)
GetMetadata_RUnlock(g) ==
  /\ ~panicked /\ mpc[g] = "get_read"
  /\ mpc' = [mpc EXCEPT ![g] = "idle"]
  /\ mconn' = [mconn EXCEPT ![g] = NoConn]
  /\ mkey' = [mkey EXCEPT ![g] = ""]
  /\ UNCHANGED <<metadata, mval, mres, lastSet, nonMetaVars>>

\* -------------------------------------------------------- GetConnections
\* h.mutex.RLock(); connections := make(map...); the range loop starts.  The
\* loop holds the write lock only inside one of its steps, so RLock returns.
GetConnections_Begin ==
  /\ ~panicked /\ gcpc \in {"idle", "done"}
  /\ gcpc' = "copy"
  /\ gcTodo' = {i \in Ids : connections[i] # NoConn}
  /\ gcCopy' = {}
  /\ gcSeen' = {Registry}
  /\ UNCHANGED <<moreVars, inVars, connections, hubVars, connVars, appVars,
                 extVars, cbVars, regHist, bcastHist, chanVars, panicked>>

\* one iteration of `for k, v := range h.connections { connections[k] = v }`;
\* an entry deleted before the range reaches it is not produced
GetConnections_Copy(i) ==
  /\ ~panicked /\ gcpc = "copy" /\ i \in gcTodo
  /\ gcTodo' = gcTodo \ {i}
  /\ gcCopy' = IF connections[i] # NoConn THEN gcCopy \cup {connections[i]}
                                          ELSE gcCopy
  /\ UNCHANGED <<moreVars, inVars, gcpc, gcSeen, connections, hubVars,
                 connVars, appVars, extVars, cbVars, regHist, bcastHist,
                 chanVars, panicked>>

\* the range loop is over: return connections (defer h.mutex.RUnlock())
GetConnections_Return ==
  /\ ~panicked /\ gcpc = "copy" /\ gcTodo = {}
  /\ gcpc' = "done"
  /\ UNCHANGED <<moreVars, inVars, gcTodo, gcCopy, gcSeen, connections,
                 hubVars, connVars, appVars, extVars, cbVars, regHist,
                 bcastHist, chanVars, panicked>>

\* The range loop of GetConnections overlaps delete(h.connections, conn.ID)
\* of the broadcast case, both under the read lock: the range sees the map
\* as it is right before or right after the delete (the steps above) or the
\* runtime aborts the process (fatal error: concurrent map iteration and map
\* write).
GetConnections_Race ==
  /\ ~panicked /\ gcpc = "copy" /\ hubpc = "bcast"
  /\ \E j \in todo : ~sendClosed[connections[j]] /\ ~CanSend(connections[j])
  /\ panicked' = TRUE
  /\ UNCHANGED <<moreVars, newVars, connections, hubVars, connVars, appVars, extVars,
                 cbVars, regHist, bcastHist, chanVars>>

\* --------------------------------------- callbacks that use the hub
\* h.handler.OnConnect(conn) of a handler that calls hub.Broadcast, as
\* ChatWebSocketHandler.OnConnect does: Broadcast marshals, returns the error
\* if that fails, else sends on the unbuffered h.broadcast from the loop's
\* own goroutine ("cb_bcast"); the only receive on h.broadcast is the select
\* of Run, which this goroutine reaches again only once OnConnect returns
Run_OnConnect_Broadcast(ser) ==
  /\ ~panicked /\ hubpc = "reg_cb"
  /\ onConnect' = [onConnect EXCEPT ![hubconn] = @ + 1]
  /\ IF MarshalResult(ser) = "nil"
       THEN hubpc' = "cb_bcast" /\ UNCHANGED hubconn
       ELSE hubpc' = "select" /\ hubconn' = NoConn
  /\ UNCHANGED <<moreVars, newVars, connections, hubmsg, todo, connVars, appVars,
                 extVars, onDisconnect, onError, regHist, bcastHist,
                 chanVars, panicked>>

\* h.handler.OnDisconnect(conn) of a handler that calls hub.Broadcast, as
\* ChatWebSocketHandler.OnDisconnect does
Run_OnDisconnect_Broadcast(ser) ==
  /\ ~panicked /\ hubpc = "unreg_cb"
  /\ onDisconnect' = [onDisconnect EXCEPT ![hubconn] = @ + 1]
  /\ IF MarshalResult(ser) = "nil"
       THEN hubpc' = "cb_bcast" /\ UNCHANGED hubconn
       ELSE hubpc' = "select" /\ hubconn' = NoConn
  /\ UNCHANGED <<moreVars, newVars, connections, hubmsg, todo, connVars, appVars,
                 extVars, onConnect, onError, regHist, bcastHist, chanVars,
                 panicked>>

\* ------------------------------------------------------- specifications
HubNext ==
  \/ \E c \in Conns : Run_RecvRegister(c)
  \/ Run_Register
  \/ Run_OnConnect
  \/ \E c \in Conns : Run_RecvUnregister(c)
  \/ Run_Unregister
  \/ Run_OnDisconnect
  \/ \E a \in Apps : Run_RecvBroadcast(a)
  \/ \E i \in Ids : Run_BroadcastStep(i)
  \/ Run_BroadcastEnd

ConnNext ==
  \/ \E c \in Conns : HandleWebSocketUpgrade(c)
  \/ \E c \in Conns : ReadPump_ReadError(c, "net")
  \/ \E c \in Conns : ReadPump_Close(c)
  \/ \E c \in Conns, werr \in BOOLEAN : WritePump_Recv(c, werr)
  \/ \E c \in Conns, n \in 0..SendCap, werr \in BOOLEAN :
        WritePump_Coalesce(c, n, werr)
  \/ \E c \in Conns : WritePump_Closed(c)
  \/ \E c \in Conns, werr \in BOOLEAN : WritePump_Ping(c, werr)

AppNext ==
  \/ \E a \in Apps, ser \in BOOLEAN : Broadcast(a, ser)
  \/ \E a \in Apps, i \in Ids, ser \in BOOLEAN : SendToConnection(a, i, ser)
  \/ \E a \in Apps : SendToConnection_Race(a)
  \/ \E a \in Apps, c \in Conns, ser \in BOOLEAN : Send(a, c, ser)
  \/ \E a \in Apps : Conn_Send(a)

Next == HubNext \/ ConnNext \/ AppNext

\* the program as the repository runs it, every read error being a network
\* error or an expected close (no OnError)
Spec == Init /\ [][Next]_vars

NextErr ==
  \/ Next
  \/ \E c \in Conns : ReadPump_ReadError(c, "close_other")

\* the same with unexpected close errors, which call OnError
SpecErr == Init /\ [][NextErr]_vars

\* the hub under register and unregister requests only, with callers that
\* also submit on hub.unregister directly
NextUnreg ==
  \/ \E c \in Conns : HandleWebSocketUpgrade(c)
  \/ \E c \in Conns : Run_RecvRegister(c)
  \/ Run_Register
  \/ Run_OnConnect
  \/ \E c \in Conns : ReadPump_ReadError(c, "net")
  \/ \E c \in Conns : ReadPump_Close(c)
  \/ \E c \in Conns : WritePump_Closed(c)
  \/ \E c \in Conns, werr \in BOOLEAN : WritePump_Ping(c, werr)
  \/ \E c \in Conns : Unregister(c)
  \/ \E c \in Conns : Run_RecvUnregister(c)
  \/ \E c \in Conns : Run_RecvUnregisterExt(c)
  \/ Run_Unregister
  \/ Run_OnDisconnect

SpecUnreg == Init /\ [][NextUnreg]_vars

\* connections whose peers send frames and whose transports fail, on the
\* read side or on the write side
NextRead ==
  \/ \E c \in Conns : HandleWebSocketUpgrade(c)
  \/ \E c \in Conns : Run_RecvRegister(c)
  \/ Run_Register
  \/ Run_OnConnect
  \/ \E c \in Conns, f \in Frames : ReadPump_Message(c, f)
  \/ \E c \in Conns, k \in ErrKinds : ReadPump_ReadError(c, k)
  \/ \E c \in Conns : ReadPump_Close(c)
  \/ \E c \in Conns : WritePump_Closed(c)
  \/ \E c \in Conns, werr \in BOOLEAN : WritePump_Ping(c, werr)
  \/ \E c \in Conns : Run_RecvUnregister(c)
  \/ Run_Unregister
  \/ Run_OnDisconnect

SpecRead == Init /\ [][NextRead]_vars

\* connections that stay up, fed by every kind of enqueue and drained by
\* their write pumps, every payload serializable
NextPump ==
  \/ \E c \in Conns : HandleWebSocketUpgrade(c)
  \/ \E c \in Conns : Run_RecvRegister(c)
  \/ Run_Register
  \/ Run_OnConnect
  \/ \E a \in Apps : Run_RecvBroadcast(a)
  \/ \E i \in Ids : Run_BroadcastStep(i)
  \/ Run_BroadcastEnd
  \/ \E a \in Apps : Broadcast(a, TRUE)
  \/ \E a \in Apps, i \in Ids : SendToConnection(a, i, TRUE)
  \/ \E a \in Apps, c \in Conns : Send(a, c, TRUE)
  \/ \E a \in Apps : Conn_Send(a)
  \/ \E c \in Conns, werr \in BOOLEAN : WritePump_Recv(c, werr)
  \/ \E c \in Conns, n \in 0..SendCap, werr \in BOOLEAN :
        WritePump_Coalesce(c, n, werr)
  \/ \E c \in Conns : WritePump_Closed(c)

SpecPump == Init /\ [][NextPump]_vars

\* the hub under broadcasts, lookups and GetConnections, every payload
\* serializable and the write pumps not scheduled
NextSnap ==
  \/ HubNext
  \/ \E c \in Conns : HandleWebSocketUpgrade(c)
  \/ \E c \in Conns : ReadPump_ReadError(c, "net")
  \/ \E c \in Conns : ReadPump_Close(c)
  \/ \E a \in Apps : Broadcast(a, TRUE)
  \/ \E a \in Apps, i \in Ids : SendToConnection(a, i, TRUE)
  \/ \E a \in Apps : SendToConnection_Race(a)
  \/ \E a \in Apps : Conn_Send(a)
  \/ GetConnections_Begin
  \/ \E i \in Ids : GetConnections_Copy(i)
  \/ GetConnections_Return
  \/ GetConnections_Race

SpecSnap == Init /\ [][NextSnap]_vars

\* the steps of the coordination loop when the handler's OnConnect and
\* OnDisconnect may call hub.Broadcast
HubCbNext ==
  \/ \E c \in Conns : Run_RecvRegister(c)
  \/ Run_Register
  \/ Run_OnConnect
  \/ \E ser \in BOOLEAN : Run_OnConnect_Broadcast(ser)
  \/ \E c \in Conns : Run_RecvUnregister(c)
  \/ Run_Unregister
  \/ Run_OnDisconnect
  \/ \E ser \in BOOLEAN : Run_OnDisconnect_Broadcast(ser)

NextCb ==
  \/ HubCbNext
  \/ \E c \in Conns : HandleWebSocketUpgrade(c)
  \/ \E c \in Conns : ReadPump_ReadError(c, "net")
  \/ \E c \in Conns : ReadPump_Close(c)
  \/ \E c \in Conns : WritePump_Closed(c)
  \/ \E c \in Conns, werr \in BOOLEAN : WritePump_Ping(c, werr)

\* the hub with a handler whose callbacks may broadcast
SpecCb == Init /\ [][NextCb]_vars

\* scheduling of the loop: its goroutine keeps running while it has a step
\* to take, and the select of Run picks among its ready cases at random, so
\* a request that is ready again and again is taken
FairCb ==
  /\ WF_vars(HubCbNext)
  /\ \A c \in Conns : SF_vars(Run_RecvRegister(c))
  /\ \A c \in Conns : SF_vars(Run_RecvUnregister(c))

SpecCbFair == SpecCb /\ FairCb

\* connections torn down in every way: read errors of every kind, write
\* errors, broadcasts that overflow a queue, explicit Close
NextClose ==
  \/ HubNext
  \/ \E c \in Conns : HandleWebSocketUpgrade(c)
  \/ \E c \in Conns, k \in ErrKinds : ReadPump_ReadError(c, k)
  \/ \E c \in Conns : ReadPump_Close(c)
  \/ \E c \in Conns, werr \in BOOLEAN : WritePump_Recv(c, werr)
  \/ \E c \in Conns, n \in 0..SendCap, werr \in BOOLEAN :
        WritePump_Coalesce(c, n, werr)
  \/ \E c \in Conns : WritePump_Closed(c)
  \/ \E c \in Conns, werr \in BOOLEAN : WritePump_Ping(c, werr)
  \/ \E a \in Apps : Broadcast(a, TRUE)
  \/ \E c \in Conns : Conn_Close(c)

SpecClose == Init /\ [][NextClose]_vars

\* connections whose writes fail, on a message or on a ping
NextFail ==
  \/ HubNext
  \/ \E c \in Conns : HandleWebSocketUpgrade(c)
  \/ \E c \in Conns : ReadPump_ReadError(c, "net")
  \/ \E c \in Conns : ReadPump_Close(c)
  \/ \E c \in Conns, werr \in BOOLEAN : WritePump_Recv(c, werr)
  \/ \E c \in Conns, n \in 0..SendCap, werr \in BOOLEAN :
        WritePump_Coalesce(c, n, werr)
  \/ \E c \in Conns : WritePump_Closed(c)
  \/ \E c \in Conns, werr \in BOOLEAN : WritePump_Ping(c, werr)
  \/ \E a \in Apps : Broadcast(a, TRUE)

\* scheduling: the loop's goroutine keeps running and its select takes a
\* request that stays ready; a readPump blocked in ReadMessage returns once
\* the transport is closed, and its defer runs to the end
FairFail ==
  /\ WF_vars(HubNext)
  /\ \A c \in Conns : SF_vars(Run_RecvRegister(c))
  /\ \A c \in Conns : SF_vars(Run_RecvUnregister(c))
  /\ \A c \in Conns : WF_vars(ReadPump_TransportClosed(c))
  /\ \A c \in Conns : WF_vars(ReadPump_Close(c))

SpecFail == Init /\ [][NextFail]_vars /\ FairFail

\* scheduling of a writePump: a receive from conn.Send that is ready (a
\* queued message, or the queue closed) is taken, and the writes of a frame
\* return, each within its write deadline
FairWrite ==
  \A c \in Conns :
    /\ WF_vars(\E werr \in BOOLEAN : WritePump_Recv(c, werr))
    /\ WF_vars(\E n \in 0..SendCap, werr \in BOOLEAN :
                 WritePump_Coalesce(c, n, werr))
    /\ WF_vars(WritePump_Closed(c))

\* the same connections with every goroutine scheduled
SpecTeardown == Init /\ [][NextFail]_vars /\ FairFail /\ FairWrite

\* a handler whose OnMessage never returns, with peers that send the empty
\* envelope, broadcasts, and write pumps whose writes succeed as long as the
\* transport is open
NextBlock ==
  \/ HubNext
  \/ \E c \in Conns : HandleWebSocketUpgrade(c)
  \/ \E c \in Conns : ReadPump_Message_Blocks(c, "{}")
  \/ \E c \in Conns : ReadPump_ReadError(c, "net")
  \/ \E c \in Conns : ReadPump_Close(c)
  \/ \E c \in Conns : WritePump_Recv(c, connCloses(c) > 0)
  \/ \E c \in Conns, n \in 0..SendCap :
        WritePump_Coalesce(c, n, connCloses(c) > 0)
  \/ \E c \in Conns : WritePump_Closed(c)
  \/ \E a \in Apps : Broadcast(a, TRUE)

\* scheduling: every goroutine that can take a step keeps running, and the
\* select of Run takes a request that stays ready
FairBlock ==
  /\ WF_vars(HubNext)
  /\ \A c \in Conns : SF_vars(Run_RecvRegister(c))
  /\ \A c \in Conns : SF_vars(Run_RecvUnregister(c))
  /\ \A a \in Apps : SF_vars(Run_RecvBroadcast(a))
  /\ \A c \in Conns : WF_vars(ReadPump_Close(c))
  /\ \A c \in Conns : WF_vars(WritePump_Recv(c, connCloses(c) > 0))
  /\ \A c \in Conns :
       WF_vars(\E n \in 0..SendCap :
                 WritePump_Coalesce(c, n, connCloses(c) > 0))

SpecBlock == Init /\ [][NextBlock]_vars /\ FairBlock

\* goroutines that set and get the metadata of registered connections
\* while another one takes snapshots of the registry
MetaNext ==
  \/ \E g \in MetaUsers, c \in Conns, k \in MetaKeys, v \in MetaVals :
        SetMetadata_Lock(g, c, k, v)
  \/ \E g \in MetaUsers : SetMetadata_Write(g)
  \/ \E g \in MetaUsers : SetMetadata_Unlock(g)
  \/ \E g \in MetaUsers, c \in Conns, k \in MetaKeys :
        GetMetadata_RLock(g, c, k)
  \/ \E g \in MetaUsers : GetMetadata_Read(g)
  \/ \E g \in MetaUsers : GetMetadata_RUnlock(g)

NextMeta ==
  \/ MetaNext
  \/ \E c \in Conns : HandleWebSocketUpgrade(c)
  \/ \E c \in Conns : Run_RecvRegister(c)
  \/ Run_Register
  \/ Run_OnConnect
  \/ GetConnections_Begin
  \/ \E i \in Ids : GetConnections_Copy(i)
  \/ GetConnections_Return

SpecMeta == Init /\ [][NextMeta]_vars

\* the steps of connections under the clock: pings on the ticker, pongs,
\* read timeouts, teardown; no other transport error
TimedNext ==
  \/ \E c \in Conns : HandleWebSocketUpgrade(c)
  \/ \E c \in Conns : Run_RecvRegister(c)
  \/ Run_Register
  \/ Run_OnConnect
  \/ \E c \in Conns : WritePump_Tick(c, connCloses(c) > 0)
  \/ \E c \in Conns : ReadPump_Pong(c)
  \/ \E c \in Conns : ReadPump_Timeout(c)
  \/ \E c \in Conns : ReadPump_Close(c)
  \/ \E c \in Conns : WritePump_Closed(c)
  \/ \E c \in Conns : Run_RecvUnregister(c)
  \/ Run_Unregister
  \/ Run_OnDisconnect

\* peers that send no data
NextTime ==
  \/ Tick
  \/ TimedNext

SpecTime == Init /\ [][NextTime]_vars

\* peers that send the empty envelope, over a shorter time
NextData ==
  \/ Tick /\ now' <= MaxTimeData
  \/ TimedNext
  \/ \E c \in Conns : ReadPump_Message(c, "{}")

SpecData == Init /\ [][NextData]_vars

\* everything that closes a send queue: unregister requests, from readPump
\* and from direct submitters, and broadcasts that find a queue full
NextQueue ==
  \/ NextUnreg
  \/ \E a \in Apps : Broadcast(a, TRUE)
  \/ \E a \in Apps : Run_RecvBroadcast(a)
  \/ \E i \in Ids : Run_BroadcastStep(i)
  \/ Run_BroadcastEnd

SpecQueue == Init /\ [][NextQueue]_vars

\* the hub under broadcasts and lookups, the overflow branch of the
\* broadcast case taken statement by statement, the write pumps not
\* scheduled
NextOverflow ==
  \/ \E c \in Conns : HandleWebSocketUpgrade(c)
  \/ \E c \in Conns : Run_RecvRegister(c)
  \/ Run_Register
  \/ Run_OnConnect
  \/ \E c \in Conns : ReadPump_ReadError(c, "net")
  \/ \E c \in Conns : ReadPump_Close(c)
  \/ \E c \in Conns : Run_RecvUnregister(c)
  \/ Run_Unregister
  \/ Run_OnDisconnect
  \/ \E a \in Apps : Broadcast(a, TRUE)
  \/ \E a \in Apps : Run_RecvBroadcast(a)
  \/ \E i \in Ids : Run_BroadcastStep(i) /\ sendClosed' = sendClosed
  \/ \E i \in Ids : Run_BroadcastStep_Close(i)
  \/ Run_BroadcastStep_Delete
  \/ Run_BroadcastEnd
  \/ \E a \in Apps, i \in Ids : SendToConnection(a, i, TRUE)
  \/ \E a \in Apps : Conn_Send(a)

SpecOverflow == Init /\ [][NextOverflow]_vars

\* ================================================================ claims

\* C1: at the moment the coordination loop invokes handler.OnConnect(conn)
\* (it stands right before the call), conn is in the registry under conn.ID.
C1_InRegistryAtOnConnect ==
  hubpc = "reg_cb" => connections[ID(hubconn)] = hubconn

\* the loop has called OnConnect for a connection it had inserted
C1_Witness ==
  \E c \in Conns : onConnect[c] = 1 /\ InRegistry(c) /\ hubpc = "select"

\* C2: OnConnect is invoked exactly once for every connection handed to the
\* hub: never before its register request is taken, once as soon as the
\* register case is through, and never again, whatever else the hub does.
C2_OnConnectExactlyOnce ==
  \A c \in Conns :
    /\ onConnect[c] <= 1
    /\ upg[c] # "done" => onConnect[c] = 0
    /\ (upg[c] = "done" /\ ~(hubpc \in {"reg", "reg_cb"} /\ hubconn = c))
         => onConnect[c] = 1

\* a connection lived through connect, a finished broadcast and disconnect
C2_Witness ==
  \E c \in Conns : onConnect[c] = 1 /\ onDisconnect[c] = 1 /\ bdone # {}

\* C3: Unregister is idempotent: however often a connection is submitted on
\* the unregister channel, OnDisconnect is invoked exactly once for it.
C3_OnDisconnectOnce ==
  \A c \in Conns :
    /\ onDisconnect[c] <= 1
    /\ (c \in unregProcessed /\ ~(hubpc = "unreg_cb" /\ hubconn = c))
         => onDisconnect[c] = 1

\* C4: whenever OnDisconnect(conn) is invoked (the loop stands right before
\* the call), conn is out of the registry and conn.Send is closed.
C4_RemovedAndClosedAtOnDisconnect ==
  hubpc = "unreg_cb" => (~InRegistry(hubconn) /\ sendClosed[hubconn])

\* OnDisconnect is about to be called for a connection that was registered
C4_Witness ==
  hubpc = "unreg_cb" /\ hubconn \in regProcessed

C6_EveryRegisteredGetsOneCopy ==
  \A m \in bdone : \A c \in Conns :
    Count(m, enq[c]) = IF c \in bsnap[m] THEN 1 ELSE 0

\* C6 amended: a connection that was in the registry when the broadcast was
\* taken gets exactly one copy if conn.Send has room when the loop reaches
\* it; if it is full it gets none, its queue is closed and it leaves the
\* registry.  No connection gets two copies, and one registered later none.
C6_OneCopyUnlessFull ==
  /\ \A m \in Msgs : \A c \in Conns : Count(m, enq[c]) <= 1
  /\ \A m \in bdone :
       /\ bfull[m] \subseteq bsnap[m]
       /\ \A c \in Conns :
            Count(m, enq[c]) = IF c \in bsnap[m] \ bfull[m] THEN 1 ELSE 0
  /\ \A c \in Conns :
       (hubpc = "bcast" /\ c \in bfull[hubmsg])
         => (sendClosed[c] /\ ~InRegistry(c))

\* a finished broadcast reached one connection and found another one full
C6_Witness ==
  \E m \in bdone : bfull[m] # {} /\ bsnap[m] \ bfull[m] # {}

\* C7: once an enqueue has found the queue of a connection full while its
\* pump has drained nothing, the connection is out of the registry and no
\* later enqueue succeeds.
C7_OverflowTearsDown ==
  \A c \in Conns :
    (overflowLen[c] >= 0 /\ Len(sendq[c]) = Len(enq[c]))
      => (~InRegistry(c) /\ Len(enq[c]) = overflowLen[c])

\* C8: when Connection.Send (called directly or through SendToConnection)
\* finds the queue full, it returns an error without enqueuing and the
\* connection is torn down: queue closed, connection out of the registry.
C8_SendOverflowTearsDown ==
  [][\A a \in Apps :
       (Conn_Send(a) /\ ares'[a] = "full")
         => /\ sendq'[aconn[a]] = sendq[aconn[a]]
            /\ sendClosed'[aconn[a]]
            /\ connections'[ID(aconn[a])] # aconn[a]]_vars

\* C9: SendToConnection with an id absent from the registry returns the
\* not-found error and changes neither the registry nor any send queue.
C9_NotFoundChangesNothing ==
  [][\A a \in Apps, i \in Ids, ser \in BOOLEAN :
       (SendToConnection(a, i, ser) /\ connections[i] = NoConn)
         => /\ ares'[a] = "not_found" /\ apc'[a] = "idle"
            /\ UNCHANGED <<connections, sendq, sendClosed, enq>>]_vars

\* not-found was returned while another connection was registered with a
\* message queued
C9_Witness ==
  \E a \in Apps, c \in Conns :
    /\ aop[a] = "SendToConnection" /\ ares[a] = "not_found"
    /\ InRegistry(c) /\ sendq[c] # <<>>

\* C10: Broadcast returns an error only when the message cannot be
\* serialized, whatever the state of the connections' queues.
C10_BroadcastErrorOnlyOnMarshal ==
  \A a \in Apps :
    (aop[a] = "Broadcast" /\ apc[a] = "idle")
      => /\ ares[a] \in {"nil", "marshal_error"}
         /\ ares[a] = "marshal_error" <=> ~aser[a]

\* a Broadcast returned nil and its fan-out found a full queue
C10_Witness ==
  \E a \in Apps, m \in bdone :
    /\ aop[a] = "Broadcast" /\ apc[a] = "idle" /\ ares[a] = "nil"
    /\ bfull[m] # {}

\* C11: the coordination loop never blocks on a connection's outbound queue.
\* While it fans a broadcast out it can always take its next step, whatever
\* the queues hold and whether or not a pump drains them; every step of the
\* fan-out visits one more connection, so the fan-out is over after at most
\* as many steps as the registry held connections, and the loop is back at
\* its select.
C11_BroadcastNeverBlocks ==
  /\ []((hubpc = "bcast" /\ ~panicked) =>
          /\ \A i \in todo : ENABLED Run_BroadcastStep(i)
          /\ todo = {} => ENABLED Run_BroadcastEnd
          /\ todo \subseteq {ID(c) : c \in bsnap[hubmsg]})
  /\ [][(hubpc = "bcast" /\ hubpc' = "bcast" /\ hubVars' # hubVars)
          => (todo' \subseteq todo /\ todo' # todo)]_vars

\* a fan-out is over although it met a full queue whose pump wrote nothing
C11_Witness ==
  \E m \in bdone : \E c \in bfull[m] : wire[c] = <<>> /\ hubpc = "select"

\* C12: Broadcast may be called from inside the handler's OnConnect and
\* OnDisconnect: such a call returns and the coordination loop goes on, that
\* is, whenever the loop's goroutine is inside a callback's Broadcast, at the
\* send on h.broadcast, the loop has a step it can take.
C12_CallbackBroadcastReturns ==
  (hubpc = "cb_bcast" /\ ~panicked) => ENABLED HubCbNext

\* a step in which a goroutine other than the loop's reads h.connections
OutsideRead ==
  \/ \E a \in Apps, i \in Ids, ser \in BOOLEAN : SendToConnection(a, i, ser)
  \/ \E i \in Ids : GetConnections_Copy(i)

C14_SnapshotConsistent ==
  /\ [](gcpc = "done" => gcCopy \in gcSeen)
  /\ [][gcpc = "copy" => connections' = connections]_vars

C17_RequestsEventuallyProcessed ==
  \A c \in Conns :
    /\ (upg[c] = "registering") ~> (c \in regProcessed)
    /\ (rp[c] = "unreg") ~> (c \in unregProcessed)

\* a step in which connection c fails or is torn down: a read error, a
\* write error, an enqueue that finds its queue full, its unregistration
FailureStep(c) ==
  \/ \E k \in ErrKinds : ReadPump_ReadError(c, k)
  \/ ReadPump_Close(c)
  \/ WritePump_Recv(c, TRUE)
  \/ \E n \in 0..SendCap : WritePump_Coalesce(c, n, TRUE)
  \/ WritePump_Ping(c, TRUE)
  \/ WritePump_Closed(c)
  \/ Run_BroadcastStep(ID(c)) /\ sendClosed'[c] # sendClosed[c]
  \/ \E a \in Apps : Conn_Send(a) /\ aconn[a] = c /\ ares'[a] = "full"
  \/ hubconn = c /\ (Run_Unregister \/ Run_OnDisconnect)

\* a registered connection with room in its queue and both pumps running
Healthy(d) ==
  /\ InRegistry(d) /\ ~sendClosed[d] /\ CanSend(d)
  /\ rp[d] = "run" /\ wp[d] = "run"

\* C18: per-connection failures are contained.  A step in which connection
\* A fails or is torn down (read error, write error, queue overflow) leaves
\* the registry entry, the queue and the pumps of every other connection
\* unchanged, and the other connections keep being served: the process never
\* goes down around a healthy connection.
C18_FailuresContained ==
  /\ [][\A c \in Conns : FailureStep(c) =>
          \A d \in Conns \ {c} :
            /\ connections'[ID(d)] = connections[ID(d)]
            /\ sendq'[d] = sendq[d] /\ sendClosed'[d] = sendClosed[d]
            /\ rp'[d] = rp[d] /\ wp'[d] = wp[d] /\ wire'[d] = wire[d]]_vars
  /\ [](\A d \in Conns : Healthy(d) => ~panicked)

\* C19: a transport failure is terminal and produces OnError(conn, err)
\* followed by OnDisconnect(conn).  Taken on a write failure: once writePump
\* has returned on a write error (the queue still open) and readPump meets
\* its terminal read error and goes to unregister, OnError has been called
\* for the connection.
C19_TransportFailureCallsOnError ==
  [][\A c \in Conns, k \in ErrKinds :
       (ReadPump_ReadError(c, k) /\ wp[c] = "exit" /\ ~sendClosed[c])
         => onError'[c] >= 1]_vars

\* the OnMessage calls readPump makes for a sequence of frames
RECURSIVE Delivered(_)
Delivered(fs) ==
  IF fs = <<>> THEN <<>>
  ELSE (IF Unmarshal(Head(fs)).err THEN <<>>
        ELSE << <<Unmarshal(Head(fs)).Type, Unmarshal(Head(fs)).Data>> >>)
       \o Delivered(Tail(fs))

\* C20: a frame that fails to decode does not terminate the connection and
\* triggers no OnError: the step that reads it changes nothing but the log
\* of frames read.  Every frame that decodes produces exactly one OnMessage
\* with its type and data, whatever frames came before it.
C20_MalformedFrameSkipped ==
  /\ [](\A c \in Conns : onMessage[c] = Delivered(recvd[c]))
  /\ [][\A c \in Conns, f \in Frames :
          (ReadPump_Message(c, f) /\ Unmarshal(f).err)
            => /\ rp'[c] = "run"
               /\ UNCHANGED <<onError, onMessage, onDisconnect, connections,
                              sendClosed>>]_vars

\* a connection read a frame that does not decode, then one that does, and
\* the handler got that one message and no error
C20_Witness ==
  \E c \in Conns :
    /\ Len(recvd[c]) = 2
    /\ Unmarshal(recvd[c][1]).err /\ ~Unmarshal(recvd[c][2]).err
    /\ onMessage[c] = << <<"ping", "1">> >>
    /\ onError[c] = 0 /\ rp[c] = "run" /\ InRegistry(c)

\* C21: the transport handle of a connection is closed exactly once, at
\* teardown, over any sequence of read failure, write failure, queue
\* overflow and explicit Close: conn.Conn.Close() is never called a second
\* time for one connection.
C21_TransportClosedOnce ==
  \A c \in Conns : connCloses(c) <= 1

\* C29: no enqueue is ever attempted on a closed send queue: neither a
\* Connection.Send of application code (directly or through
\* SendToConnection) nor the loop's fan-out ever executes its send on
\* conn.Send after that queue was closed.
C29_NoSendOnClosedQueue ==
  /\ \A a \in Apps : ares[a] # "panic"
  /\ hubpc = "bcast" => \A i \in todo : ~sendClosed[connections[i]]

\* C30: a connection's send queue is closed at most once over any sequence
\* of unregister requests and broadcast overflow removals, so the loop never
\* closes a queue that is closed already.
C30_QueueClosedAtMostOnce ==
  \A c \in Conns : sendCloses[c] <= 1

\* a queue closed by an overflow, its connection unregistered afterwards,
\* and one closed by an unregister request that was then repeated
C30_Witness ==
  /\ \E c \in Conns : \E m \in Msgs :
        c \in bfull[m] /\ c \in unregProcessed /\ sendCloses[c] = 1
  /\ \E c \in Conns : onDisconnect[c] = 2 /\ sendCloses[c] = 1

\* C24: on a terminal read error the inbound pump submits an Unregister for
\* its connection, and when the error is not an expected close (it is no
\* close error with an expected code), OnError(conn, err) is invoked, before
\* any OnDisconnect(conn) for that connection.
C24_ReadErrorReportedBeforeDisconnect ==
  [][\A c \in Conns, k \in ErrKinds :
       ReadPump_ReadError(c, k) =>
         /\ rp'[c] = "unreg"
         /\ k # "close_expected" =>
              (onError'[c] = onError[c] + 1 /\ onDisconnect'[c] = 0)]_vars

\* a step of the writePump of connection c
WritePumpStep(c) ==
  \/ \E werr \in BOOLEAN : WritePump_Recv(c, werr)
  \/ \E n \in 0..SendCap, werr \in BOOLEAN : WritePump_Coalesce(c, n, werr)
  \/ WritePump_Closed(c)
  \/ \E werr \in BOOLEAN : WritePump_Ping(c, werr)

\* C28: when the outbound pump finds its send queue closed (and drained), it
\* writes a close frame, which reaches the wire if the transport is still
\* open, and exits, writing nothing else in that step; once it has exited it
\* takes no further step, so it writes no further message and no keepalive
\* probe.
C28_CloseFrameThenExit ==
  /\ [][\A c \in Conns : WritePump_Closed(c) =>
          /\ closeFrame[c] = "none" /\ closeFrame'[c] # "none"
          /\ connCloses(c) = 0 => closeFrame'[c] = "written"
          /\ wp'[c] = "exit" /\ wire'[c] = wire[c]]_vars
  /\ [](\A c \in Conns : wp[c] = "exit" => ~ENABLED WritePumpStep(c))
  /\ [](\A c \in Conns : closeFrame[c] # "none" => wp[c] = "exit")

\* a pump wrote its close frame to an open transport after an overflow, with
\* messages written before it, and another found the transport closed
C28_Witness ==
  /\ \E c \in Conns :
        closeFrame[c] = "written" /\ wire[c] # <<>> /\ overflowLen[c] >= 0
  /\ \E c \in Conns : closeFrame[c] = "failed"

\* C25: a write failure in the outbound pump (message write or keepalive
\* probe) terminates that pump and the connection: once writePump has
\* returned on a write error, the connection is eventually out of the
\* registry with OnDisconnect called for it.
C25_WriteFailureTearsDown ==
  \A c \in Conns :
    (wp[c] = "exit" /\ ~sendClosed[c])
      ~> (~InRegistry(c) /\ onDisconnect[c] >= 1 /\ rp[c] = "exit")

\* writePump returned on a write error while its connection is registered
\* and has written a message before
C25_Witness ==
  \E c \in Conns :
    wp[c] = "exit" /\ ~sendClosed[c] /\ InRegistry(c) /\ wire[c] # <<>>

\* C27: a handler OnMessage callback that blocks forever stalls only the
\* inbound pump of its own connection.  While connection c is inside such
\* a call, the loop still processes the register, unregister and broadcast
\* requests submitted to it, every other connection can still have a frame
\* read and delivered, and the queues (that of c included) are still
\* drained by their write pumps (until a pump meets a closed transport).
C27_BlockedOnMessageStallsOnlyItsPump ==
  /\ [](\A c \in Conns : (rp[c] = "blocked" /\ ~panicked) =>
          /\ hubpc = "select" \/ ENABLED HubNext
          /\ \A d \in Conns \ {c} :
               (rp[d] = "run" /\ connCloses(d) = 0
                  /\ Len(recvd[d]) < MaxFrames)
                 => ENABLED ReadPump_Message(d, "{}"))
  /\ \A c \in Conns :
       /\ \A d \in Conns \ {c} :
            /\ (rp[c] = "blocked" /\ upg[d] = "registering")
                 ~> (d \in regProcessed /\ onConnect[d] = 1)
            /\ (rp[c] = "blocked" /\ rp[d] = "unreg")
                 ~> (d \in unregProcessed /\ onDisconnect[d] >= 1)
       /\ \A a \in Apps :
            (rp[c] = "blocked" /\ apc[a] = "bcast_wait")
              ~> (apc[a] = "idle" /\ ares[a] = "nil")
       /\ \A d \in Conns :
            (rp[c] = "blocked" /\ wp[d] \in {"run", "coalesce"}
               /\ sendq[d] # <<>>)
              ~> (sendq[d] = <<>> \/ wp[d] = "exit")

\* while one connection is inside a blocking OnMessage, the other one was
\* registered, got a broadcast written to its peer and was unregistered
C27_Witness ==
  \E c \in Conns : \E d \in Conns \ {c} :
    /\ rp[c] = "blocked" /\ onConnect[c] = 1 /\ ~(d \in bsnap[1])
    /\ c \in bsnap[1] /\ d \in bsnap[2] /\ 2 \in bdone
    /\ Written(wire[d]) = <<2>> /\ onMessage[d] = <<>>
    /\ d \in unregProcessed /\ onDisconnect[d] = 1

\* C23: SetMetadata and GetMetadata on one connection exclude each other: a
\* goroutine inside SetMetadata shares conn.mutex with no other writer and
\* no reader.  A GetMetadata(k) that has read returns (v, true) for the
\* value v of the latest SetMetadata(k, v) that returned, and (nil, false)
\* if k was never set.  Neither call takes the hub's registry lock: each can
\* enter as soon as conn.mutex allows it, also while another goroutine
\* holds the registry lock inside GetConnections.
C23_MetadataExclusiveAndCurrent ==
  /\ \A c \in Conns :
       /\ Cardinality(MetaWriters(c)) <= 1
       /\ MetaWriters(c) # {} => MetaReaders(c) = {}
  /\ \A g \in MetaUsers :
       mpc[g] = "get_read" =>
         mres[g] = IF lastSet[mconn[g]][mkey[g]] = NoVal
                     THEN <<"nil", FALSE>>
                     ELSE <<lastSet[mconn[g]][mkey[g]], TRUE>>
  /\ \A g \in MetaUsers, c \in Conns, k \in MetaKeys :
       (~panicked /\ mpc[g] = "idle" /\ onConnect[c] > 0) =>
         /\ MetaWriters(c) = {} => ENABLED GetMetadata_RLock(g, c, k)
         /\ (MetaWriters(c) = {} /\ MetaReaders(c) = {}) =>
              \A v \in MetaVals : ENABLED SetMetadata_Lock(g, c, k, v)

\* while GetConnections holds the registry lock, one goroutine has read the
\* value a finished SetMetadata left and another one is inside SetMetadata
\* on the other connection, whose key was never set
C23_Witness ==
  \E g \in MetaUsers, h \in MetaUsers :
    /\ gcpc = "copy"
    /\ mpc[g] = "get_read" /\ mres[g] = <<"bob", TRUE>>
    /\ mpc[h] = "set_written" /\ mconn[h] # mconn[g]
    /\ mres[h] = <<"nil", FALSE>>

\* C22: a connection whose peer sends no data but whose transport never
\* fails (the peer answers every ping before the clock moves on) is sent a
\* keepalive probe on every keepalive tick and remains in the registry:
\* both pumps keep running, the connection is not unregistered once it was
\* registered, and the pings written so far are one for every tick of its
\* ticker that has passed.
C22_KeepaliveKeepsSilentConnection ==
  \A c \in Conns :
    (upg[c] = "done" /\ recvd[c] = <<>> /\ ~late[c]) =>
      /\ rp[c] = "run" /\ wp[c] = "run"
      /\ c \in regProcessed => InRegistry(c)
      /\ ~(c \in unregProcessed) /\ ~sendClosed[c]
      /\ startAt[c] + pings[c] * PingPeriod <= now
      /\ startAt[c] + (pings[c] + 1) * PingPeriod > now - TimeStep

\* a silent connection got its second ping and is still registered, while
\* one whose peer answered late was timed out and unregistered
C22_Witness ==
  \E c \in Conns : \E d \in Conns \ {c} :
    /\ pings[c] = 2 /\ ~late[c] /\ ~pongDue[c] /\ InRegistry(c)
    /\ late[d] /\ onDisconnect[d] = 1

\* C26: the inbound pump's read deadline is refreshed on every successful
\* read and on every pong, so a peer that keeps sending frames within the
\* deadline is never treated as dead: a read timeout happens only when no
\* frame was read for the whole of the deadline.
C26_DeadlineRefreshedOnRead ==
  [][\A c \in Conns :
       /\ \A f \in Frames :
            ReadPump_Message(c, f) => deadline'[c] = now + PongWait
       /\ ReadPump_Pong(c) => deadline'[c] = now + PongWait
       /\ ReadPump_Timeout(c) => now >= lastRead[c] + PongWait]_vars

\* C31: in every reachable state every connection present in the registry
\* has an open send queue, and every connection whose send queue is closed
\* is absent from the registry.
C31_RegisteredIffQueueOpen ==
  \A c \in Conns :
    /\ InRegistry(c) => ~sendClosed[c]
    /\ sendClosed[c] => ~InRegistry(c)

\* C32: for every connection, OnConnect(conn) has returned before the first
\* OnMessage(conn, ...) for that connection is invoked.
C32_OnConnectBeforeOnMessage ==
  \A c \in Conns : onMessage[c] # <<>> => onConnect[c] >= 1

\* C33: for every connection, no OnMessage(conn, ...) and no
\* OnError(conn, ...) is invoked after OnDisconnect(conn) has been invoked.
C33_NoCallbackAfterOnDisconnect ==
  [][\A c \in Conns :
       onDisconnect[c] >= 1 =>
         /\ onMessage'[c] = onMessage[c]
         /\ onError'[c] = onError[c]]_vars

\* a connection that delivered a message, reported a read error and was
\* then disconnected
C33_Witness ==
  \E c \in Conns :
    /\ onDisconnect[c] >= 1
    /\ onMessage[c] # <<>>
    /\ onError[c] >= 1
    /\ rp[c] = "exit"

\* C34: messages that were enqueued on a connection's send queue before the
\* queue was closed are still written to the transport, in order, before
\* the outbound pump writes the close frame (no write having failed): once
\* the close frame is written, what went to the transport is exactly what
\* was enqueued, in the order of the enqueues.
C34_QueueDrainedBeforeCloseFrame ==
  \A c \in Conns :
    closeFrame[c] = "written" => Written(wire[c]) = enq[c]

\* a queue that was closed while it was full (broadcast overflow), whose
\* pump then wrote the close frame
C34_Witness ==
  \E c \in Conns :
    /\ closeFrame[c] = "written"
    /\ overflowLen[c] >= SendCap
    /\ Len(enq[c]) >= SendCap

\* the callers blocked in Broadcast with message m, and whether the loop
\* has taken m
BroadcastWaiting(m) ==
  {a \in Apps : apc[a] = "bcast_wait" /\ amsg[a] = m}

BroadcastAccepted(m) == (hubpc = "bcast" /\ hubmsg = m) \/ m \in bdone

\* C35: a Broadcast call whose serialization succeeds blocks its caller
\* until the coordination loop has accepted the message and only then
\* returns nil; every accepted broadcast is fanned out exactly once, none is
\* dropped at the hub level.  That is: a call that serialized its message
\* waits; while it waits the message is neither accepted nor in any queue;
\* the caller leaves its wait only in the step in which the loop receives
\* its message, and with nil; the loop starts a fan-out only for a message
\* whose caller waits and that was not accepted before, and one fan-out
\* leaves every connection of the registry with one copy or, its queue
\* being full, removed.
C35_BroadcastBlocksUntilAccepted ==
  /\ [](\A a \in Apps :
          /\ apc[a] = "bcast_wait" =>
               /\ aop[a] = "Broadcast" /\ aser[a]
               /\ BroadcastWaiting(amsg[a]) = {a}
               /\ ~BroadcastAccepted(amsg[a])
               /\ \A c \in Conns : Count(amsg[a], enq[c]) = 0
          /\ aop[a] = "Broadcast" =>
               /\ ares[a] = "pending" <=> apc[a] = "bcast_wait"
               /\ ares[a] = "nil" => aser[a])
  /\ [](\A m \in bdone : \A c \in bsnap[m] :
          Count(m, enq[c]) = IF c \in bfull[m] THEN 0 ELSE 1)
  /\ [][\A a \in Apps :
          (/\ apc[a] = "idle" /\ aop'[a] = "Broadcast"
           /\ nextMsg' # nextMsg
           /\ \A b \in Apps \ {a} : apc'[b] = apc[b] /\ aop'[b] = aop[b])
            => /\ apc'[a] = "bcast_wait" /\ ares'[a] = "pending"
               /\ amsg'[a] = nextMsg]_vars
  /\ [][\A a \in Apps :
          (apc[a] = "bcast_wait" /\ apc'[a] # "bcast_wait")
            => /\ hubpc = "select" /\ hubpc' = "bcast"
               /\ hubmsg' = amsg[a]
               /\ ares'[a] = "nil"]_vars
  /\ [][(hubmsg' # hubmsg /\ hubmsg' # NoMsg)
          => /\ hubmsg = NoMsg
             /\ ~BroadcastAccepted(hubmsg')
             /\ BroadcastWaiting(hubmsg') # {}]_vars
  /\ [][bdone' \subseteq bdone \cup {hubmsg}]_vars

\* a Broadcast returned nil and its message was fanned out to a registry
\* that held a connection
C35_Witness ==
  \E a \in Apps :
    /\ aop[a] = "Broadcast" /\ ares[a] = "nil" /\ apc[a] = "idle"
    /\ \E m \in bdone : \E c \in bsnap[m] : Count(m, enq[c]) = 1

\* the teardown of connection c has started: readPump left its loop on a
\* read error, writePump returned on a write failure, or the queue was
\* closed (by the overflow branch of a broadcast or by an unregister)
TeardownStarted(c) ==
  rp[c] \in {"unreg", "close", "exit"} \/ wp[c] = "exit" \/ sendClosed[c]

\* both pumps returned, the transport closed and the send queue closed
TeardownDone(c) ==
  /\ rp[c] = "exit" /\ wp[c] = "exit"
  /\ connCloses(c) >= 1 /\ sendClosed[c]

\* C36: after a connection's teardown starts (terminal read error, write
\* failure or removal by broadcast overflow), both of its pumps eventually
\* terminate, its transport is closed and its send queue is closed, the
\* coordination loop taking the requests sent to it; no pump is left blocked
\* forever: a writePump that wrote the close frame has returned.
C36_TeardownCompletes ==
  /\ [](\A c \in Conns : closeFrame[c] # "none" => wp[c] = "exit")
  /\ \A c \in Conns : TeardownStarted(c) ~> TeardownDone(c)

\* a connection removed by broadcast overflow and one that met a closed
\* transport when its queue was closed, both torn down to the end
C36_Witness ==
  /\ \E c \in Conns : TeardownDone(c) /\ overflowLen[c] >= 0
  /\ \E c \in Conns : TeardownDone(c) /\ closeFrame[c] # "written"

====
